---- MODULE Spec2Model ----
(***************************************************************************)
(* A model of the gpuinfo device query engine:                             *)
(*   - the scope manager (_get_impl, _set_impl, _with_impl) over the       *)
(*     thread-local cell _current_implementation,                          *)
(*   - the Genuine and Mock backends (provider_check, save_visible, count, *)
(*     get),                                                               *)
(*   - the query engine (query, count, get).                               *)
(*                                                                         *)
(* Python's None is modelled as the empty tuple and a present value x as   *)
(* the one-element tuple <<x>>, so that None and 0, and None and [], stay  *)
(* distinct.                                                               *)
(***************************************************************************)
EXTENDS Integers, Sequences, FiniteSets, TLC

VARIABLES
    cell,       \* cell[t]: _current_implementation.value of thread t ("unset": no attribute)
    scopes,     \* scopes[t]: the `curr` locals of the _with_impl frames open on thread t
    entered,    \* history: what _get_impl() returned when each open scope was entered
    last,       \* history: the last scope-manager step (kind, thread, return value)
    installed,  \* history: how thread t has written its cell so far:
                \* "nothing", "scoped" (only through _with_impl) or "setter"
    env,        \* os.environ restricted to CUDA_VISIBLE_DEVICES and HIP_VISIBLE_DEVICES
    mock,       \* the fields of the MockImplementation instance
    mockArgs,   \* history: the constructor arguments of the mock instance
    pc,         \* pc[t]: position of thread t inside a query-engine call
    call,       \* call[t]: the call thread t is running and its arguments
    frames,     \* frames[t]: the open save_visible scopes of thread t (innermost last)
    start,      \* history: the visibility state when thread t's call started
    result      \* result[t]: how the last call of thread t ended

vars == <<cell, scopes, entered, last, installed, env, mock, mockArgs,
          pc, call, frames, start, result>>

scopeVars == <<cell, scopes, entered, last, installed>>
engineVars == <<env, mock, mockArgs, pc, call, frames, start, result>>

(***************************************************************************)
(* Bounds of the model.                                                    *)
(***************************************************************************)
MaxDepth == 2           \* deepest nesting of _with_impl scopes on one thread
MaxCount == 2           \* largest device count of one provider in a mock
MaxEnvLen == 3          \* longest value of an allow-list variable, in characters
RecursionLimit == 3     \* nested get calls at which Python raises RecursionError

Threads == {"t1", "t2"}

None == << >>
Some(x) == <<x>>
IsNone(o) == o = << >>
Val(o) == o[1]

(***************************************************************************)
(* Scope manager: src/gpuinfo/__init__.py lines 10-29.                     *)
(***************************************************************************)
\* _default_impl = GenuineImplementation()
DefaultImpl == "default"

\* The backend objects a caller can install; "None" is Python's None.
Impls == {"default", "mock"}
Installable == Impls \cup {"None"}

\* _get_impl(): getattr(_current_implementation, 'value', _default_impl)
GetImpl(c, t) == IF c[t] = "unset" THEN DefaultImpl ELSE c[t]

\* A write of thread t to the thread-local cell, as if the cell were one
\* module-level global shared by all threads.
WriteCellShared(c, t, impl) == [u \in Threads |-> impl]

\* _current_implementation.value = impl, on thread t
WriteCell(c, t, impl) == [c EXCEPT ![t] = impl]

\* _set_impl has no return statement: it returns None.
SetImplReturn(c, t) == "None"

\* _set_impl(impl) called directly on thread t
SetImpl(t, impl) ==
    /\ cell' = WriteCell(cell, t, impl)
    /\ last' = [kind |-> "set", thread |-> t, ret |-> SetImplReturn(cell, t)]
    /\ installed' = [installed EXCEPT ![t] = "setter"]
    /\ UNCHANGED <<scopes, entered>>

\* The finally clause of _with_impl, were it to leave the cell as it is.
RestoreSkipped(c, t, curr) == c

\* The finally clause of _with_impl: _set_impl(curr)
Restore(c, t, curr) == WriteCell(c, t, curr)

\* _with_impl(impl).__enter__: curr = _get_impl(); _set_impl(impl)
EnterWith(t, impl) ==
    /\ Len(scopes[t]) < MaxDepth
    /\ scopes' = [scopes EXCEPT ![t] = Append(@, GetImpl(cell, t))]
    /\ entered' = [entered EXCEPT ![t] = Append(@, GetImpl(cell, t))]
    /\ cell' = WriteCell(cell, t, impl)
    /\ last' = [kind |-> "enter", thread |-> t, ret |-> "None"]
    /\ installed' = [installed EXCEPT ![t] = IF @ = "nothing" THEN "scoped" ELSE @]

\* _with_impl(impl).__exit__: the finally clause runs on a normal return of
\* the body (exc = FALSE) and when the body raised (exc = TRUE).
ExitWith(t, exc) ==
    /\ Len(scopes[t]) > 0
    /\ LET d == Len(scopes[t])
       IN /\ cell' = Restore(cell, t, scopes[t][d])
          /\ scopes' = [scopes EXCEPT ![t] = SubSeq(@, 1, d - 1)]
          /\ entered' = [entered EXCEPT ![t] = SubSeq(@, 1, d - 1)]
          /\ last' = [kind |-> IF exc THEN "raise" ELSE "exit", thread |-> t,
                      ret |-> "None"]
    /\ UNCHANGED installed

NoLast == [kind |-> "none", thread |-> "t1", ret |-> "None"]

ScopeInit ==
    /\ cell = [t \in Threads |-> "unset"]
    /\ scopes = [t \in Threads |-> << >>]
    /\ entered = [t \in Threads |-> << >>]
    /\ last = NoLast
    /\ installed = [t \in Threads |-> "nothing"]

(***************************************************************************)
(* Provider masks: src/gpuinfo/provider.py.                                *)
(***************************************************************************)
ANY == 0
CUDA == 1
HIP == 2
ALL == 3

\* `for p in Provider`: the single-bit members in definition order (the
\* zero member ANY and the composite ALL are not iterated).
ProviderList == <<CUDA, HIP>>

\* a & b on provider masks
BitAnd(a, b) == (a % 2) * (b % 2) + 2 * ((a \div 2) % 2) * ((b \div 2) % 2)

\* a & ~b on provider masks
BitClear(a, b) == a - BitAnd(a, b)

\* Provider[tag]
ProviderOf(tag) == IF tag = "CUDA" THEN CUDA ELSE HIP

\* `provider == Provider.ANY or provider is None` -> Provider.ALL
NormalizeProvider(p) == IF IsNone(p) \/ p = Some(ANY) THEN ALL ELSE Val(p)

(***************************************************************************)
(* Lists.                                                                  *)
(***************************************************************************)
\* list(range(n))
RangeList(n) == [i \in 1..n |-> i - 1]

\* x in lst
InList(x, lst) == \E i \in 1..Len(lst) : lst[i] = x

\* lst.index(x), for x in lst (0-based position of the first occurrence)
IndexOf(x, lst) == (CHOOSE i \in 1..Len(lst) :
                        lst[i] = x /\ \A j \in 1..(i - 1) : lst[j] # x) - 1

\* sorted(list(S)) for a finite set S of integers
RECURSIVE SortedList(_)
SortedList(S) ==
    IF S = {} THEN << >>
    ELSE LET m == CHOOSE x \in S : \A y \in S : x <= y
         IN <<m>> \o SortedList(S \ {m})

\* _global_to_visible(system_index, visible), were it to return the system
\* index of every visible device.
GlobalToVisibleSystemIndex(system_index, visible) ==
    IF IsNone(visible) \/ InList(system_index, Val(visible))
    THEN Some(system_index) ELSE None

\* _global_to_visible(system_index, visible)
GlobalToVisible(system_index, visible) ==
    IF IsNone(visible) THEN Some(system_index)
    ELSE IF InList(system_index, Val(visible))
         THEN Some(IndexOf(system_index, Val(visible)))
    ELSE None

(***************************************************************************)
(* MockImplementation: src/gpuinfo/impl.py lines 72-172.                   *)
(***************************************************************************)
\* (count or 0)
OrZero(count) == IF IsNone(count) THEN 0 ELSE Val(count)

\* [idx for idx in range(count or 0) if idx in visible], or
\* list(range(count or 0)) when visible is None
MockVisibleList(count, visible) ==
    IF IsNone(visible) THEN RangeList(OrZero(count))
    ELSE SelectSeq(RangeList(OrZero(count)), LAMBDA idx : InList(idx, Val(visible)))

\* MockImplementation.__init__ (counts are not negative)
MockNew(cuda_count, hip_count, cuda_visible, hip_visible) ==
    [cuda_count |-> cuda_count,
     hip_count |-> hip_count,
     overall_count |-> OrZero(cuda_count) + OrZero(hip_count),
     cuda_visible |-> MockVisibleList(cuda_count, cuda_visible),
     hip_visible |-> MockVisibleList(hip_count, hip_visible)]

\* MockImplementation.provider_check(provider), were a runtime present only
\* with at least one device.
MockProviderCheckPositive(m, provider) ==
    IF provider = CUDA THEN OrZero(m.cuda_count) > 0 ELSE OrZero(m.hip_count) > 0

\* MockImplementation.provider_check(provider), provider one of CUDA, HIP
MockProviderCheck(m, provider) ==
    IF provider = CUDA THEN ~IsNone(m.cuda_count) ELSE ~IsNone(m.hip_count)

\* MockImplementation.count()
MockCount(m) == Len(m.cuda_visible) + Len(m.hip_visible)

\* MockImplementation.get(ord), were the index of a HIP device its ordinal.
MockGetOrdinalIndex(m, ord) ==
    IF ord < 0 \/ ord >= m.overall_count THEN None
    ELSE IF ord >= OrZero(m.cuda_count)
         THEN Some([ord |-> ord, provider |-> "HIP", index |-> ord])
    ELSE Some([ord |-> ord, provider |-> "CUDA", index |-> ord])

\* MockImplementation.get(ord): the descriptor, or None for IndexError
MockGet(m, ord) ==
    IF ord < 0 \/ ord >= m.overall_count THEN None
    ELSE IF ord >= OrZero(m.cuda_count)
         THEN Some([ord |-> ord, provider |-> "HIP", index |-> ord - OrZero(m.cuda_count)])
    ELSE Some([ord |-> ord, provider |-> "CUDA", index |-> ord])

\* MockImplementation.save_visible, were `if clear:` to leave the lists as
\* they are.
MockClearedNothing(m, clear) == m

\* MockImplementation.save_visible: the lists after `if clear:` (lines 147-149)
MockCleared(m, clear) ==
    IF clear THEN [m EXCEPT !.cuda_visible = RangeList(OrZero(m.cuda_count)),
                            !.hip_visible = RangeList(OrZero(m.hip_count))]
    ELSE m

\* MockImplementation.save_visible: the finally clause, were it to restore
\* nothing.
MockRestoredNothing(m, clear, cuda, hip) == m

\* MockImplementation.save_visible: the finally clause (lines 153-156)
MockRestored(m, clear, cuda, hip) ==
    IF clear THEN [m EXCEPT !.cuda_visible = cuda, !.hip_visible = hip] ELSE m

\* MockImplementation.save_visible: the Visible map it yields (line 152)
MockVisibleMap(m) == [cuda |-> Some(m.cuda_visible), hip |-> Some(m.hip_visible)]

(***************************************************************************)
(* GenuineImplementation: src/gpuinfo/impl.py lines 19-69.                 *)
(* A string is a sequence of characters.  A printable ASCII character is   *)
(* the one-character string; tab, line feed, form feed and carriage return *)
(* are "\t", "\n", "\f" and "\r"; any other character is written by its    *)
(* code point, as "U+0663" for ARABIC-INDIC DIGIT THREE.                   *)
(* int() is Python's: it ignores the white space around the token, takes   *)
(* an optional sign, then at most IntMaxStrDigits decimal digits of any    *)
(* script, with single underscores allowed between digits.                 *)
(***************************************************************************)
\* The characters int() ignores around a token
Whitespace ==
    {"\t", "\n", "U+000B", "\f", "\r", " ", "U+0085", "U+00A0", "U+1680",
     "U+2000", "U+2001", "U+2002", "U+2003", "U+2004", "U+2005", "U+2006", "U+2007",
     "U+2008", "U+2009", "U+200A", "U+2028", "U+2029", "U+202F", "U+205F", "U+3000"}

\* The decimal digits of Unicode 15 (general category Nd), one row per
\* script, each row the digits of value 0 to 9
DecimalDigits == <<
    <<"0", "1", "2", "3", "4", "5", "6", "7", "8", "9">>,
    <<"U+0660", "U+0661", "U+0662", "U+0663", "U+0664", "U+0665", "U+0666", "U+0667", "U+0668", "U+0669">>,
    <<"U+06F0", "U+06F1", "U+06F2", "U+06F3", "U+06F4", "U+06F5", "U+06F6", "U+06F7", "U+06F8", "U+06F9">>,
    <<"U+07C0", "U+07C1", "U+07C2", "U+07C3", "U+07C4", "U+07C5", "U+07C6", "U+07C7", "U+07C8", "U+07C9">>,
    <<"U+0966", "U+0967", "U+0968", "U+0969", "U+096A", "U+096B", "U+096C", "U+096D", "U+096E", "U+096F">>,
    <<"U+09E6", "U+09E7", "U+09E8", "U+09E9", "U+09EA", "U+09EB", "U+09EC", "U+09ED", "U+09EE", "U+09EF">>,
    <<"U+0A66", "U+0A67", "U+0A68", "U+0A69", "U+0A6A", "U+0A6B", "U+0A6C", "U+0A6D", "U+0A6E", "U+0A6F">>,
    <<"U+0AE6", "U+0AE7", "U+0AE8", "U+0AE9", "U+0AEA", "U+0AEB", "U+0AEC", "U+0AED", "U+0AEE", "U+0AEF">>,
    <<"U+0B66", "U+0B67", "U+0B68", "U+0B69", "U+0B6A", "U+0B6B", "U+0B6C", "U+0B6D", "U+0B6E", "U+0B6F">>,
    <<"U+0BE6", "U+0BE7", "U+0BE8", "U+0BE9", "U+0BEA", "U+0BEB", "U+0BEC", "U+0BED", "U+0BEE", "U+0BEF">>,
    <<"U+0C66", "U+0C67", "U+0C68", "U+0C69", "U+0C6A", "U+0C6B", "U+0C6C", "U+0C6D", "U+0C6E", "U+0C6F">>,
    <<"U+0CE6", "U+0CE7", "U+0CE8", "U+0CE9", "U+0CEA", "U+0CEB", "U+0CEC", "U+0CED", "U+0CEE", "U+0CEF">>,
    <<"U+0D66", "U+0D67", "U+0D68", "U+0D69", "U+0D6A", "U+0D6B", "U+0D6C", "U+0D6D", "U+0D6E", "U+0D6F">>,
    <<"U+0DE6", "U+0DE7", "U+0DE8", "U+0DE9", "U+0DEA", "U+0DEB", "U+0DEC", "U+0DED", "U+0DEE", "U+0DEF">>,
    <<"U+0E50", "U+0E51", "U+0E52", "U+0E53", "U+0E54", "U+0E55", "U+0E56", "U+0E57", "U+0E58", "U+0E59">>,
    <<"U+0ED0", "U+0ED1", "U+0ED2", "U+0ED3", "U+0ED4", "U+0ED5", "U+0ED6", "U+0ED7", "U+0ED8", "U+0ED9">>,
    <<"U+0F20", "U+0F21", "U+0F22", "U+0F23", "U+0F24", "U+0F25", "U+0F26", "U+0F27", "U+0F28", "U+0F29">>,
    <<"U+1040", "U+1041", "U+1042", "U+1043", "U+1044", "U+1045", "U+1046", "U+1047", "U+1048", "U+1049">>,
    <<"U+1090", "U+1091", "U+1092", "U+1093", "U+1094", "U+1095", "U+1096", "U+1097", "U+1098", "U+1099">>,
    <<"U+17E0", "U+17E1", "U+17E2", "U+17E3", "U+17E4", "U+17E5", "U+17E6", "U+17E7", "U+17E8", "U+17E9">>,
    <<"U+1810", "U+1811", "U+1812", "U+1813", "U+1814", "U+1815", "U+1816", "U+1817", "U+1818", "U+1819">>,
    <<"U+1946", "U+1947", "U+1948", "U+1949", "U+194A", "U+194B", "U+194C", "U+194D", "U+194E", "U+194F">>,
    <<"U+19D0", "U+19D1", "U+19D2", "U+19D3", "U+19D4", "U+19D5", "U+19D6", "U+19D7", "U+19D8", "U+19D9">>,
    <<"U+1A80", "U+1A81", "U+1A82", "U+1A83", "U+1A84", "U+1A85", "U+1A86", "U+1A87", "U+1A88", "U+1A89">>,
    <<"U+1A90", "U+1A91", "U+1A92", "U+1A93", "U+1A94", "U+1A95", "U+1A96", "U+1A97", "U+1A98", "U+1A99">>,
    <<"U+1B50", "U+1B51", "U+1B52", "U+1B53", "U+1B54", "U+1B55", "U+1B56", "U+1B57", "U+1B58", "U+1B59">>,
    <<"U+1BB0", "U+1BB1", "U+1BB2", "U+1BB3", "U+1BB4", "U+1BB5", "U+1BB6", "U+1BB7", "U+1BB8", "U+1BB9">>,
    <<"U+1C40", "U+1C41", "U+1C42", "U+1C43", "U+1C44", "U+1C45", "U+1C46", "U+1C47", "U+1C48", "U+1C49">>,
    <<"U+1C50", "U+1C51", "U+1C52", "U+1C53", "U+1C54", "U+1C55", "U+1C56", "U+1C57", "U+1C58", "U+1C59">>,
    <<"U+A620", "U+A621", "U+A622", "U+A623", "U+A624", "U+A625", "U+A626", "U+A627", "U+A628", "U+A629">>,
    <<"U+A8D0", "U+A8D1", "U+A8D2", "U+A8D3", "U+A8D4", "U+A8D5", "U+A8D6", "U+A8D7", "U+A8D8", "U+A8D9">>,
    <<"U+A900", "U+A901", "U+A902", "U+A903", "U+A904", "U+A905", "U+A906", "U+A907", "U+A908", "U+A909">>,
    <<"U+A9D0", "U+A9D1", "U+A9D2", "U+A9D3", "U+A9D4", "U+A9D5", "U+A9D6", "U+A9D7", "U+A9D8", "U+A9D9">>,
    <<"U+A9F0", "U+A9F1", "U+A9F2", "U+A9F3", "U+A9F4", "U+A9F5", "U+A9F6", "U+A9F7", "U+A9F8", "U+A9F9">>,
    <<"U+AA50", "U+AA51", "U+AA52", "U+AA53", "U+AA54", "U+AA55", "U+AA56", "U+AA57", "U+AA58", "U+AA59">>,
    <<"U+ABF0", "U+ABF1", "U+ABF2", "U+ABF3", "U+ABF4", "U+ABF5", "U+ABF6", "U+ABF7", "U+ABF8", "U+ABF9">>,
    <<"U+FF10", "U+FF11", "U+FF12", "U+FF13", "U+FF14", "U+FF15", "U+FF16", "U+FF17", "U+FF18", "U+FF19">>,
    <<"U+104A0", "U+104A1", "U+104A2", "U+104A3", "U+104A4", "U+104A5", "U+104A6", "U+104A7", "U+104A8", "U+104A9">>,
    <<"U+10D30", "U+10D31", "U+10D32", "U+10D33", "U+10D34", "U+10D35", "U+10D36", "U+10D37", "U+10D38", "U+10D39">>,
    <<"U+11066", "U+11067", "U+11068", "U+11069", "U+1106A", "U+1106B", "U+1106C", "U+1106D", "U+1106E", "U+1106F">>,
    <<"U+110F0", "U+110F1", "U+110F2", "U+110F3", "U+110F4", "U+110F5", "U+110F6", "U+110F7", "U+110F8", "U+110F9">>,
    <<"U+11136", "U+11137", "U+11138", "U+11139", "U+1113A", "U+1113B", "U+1113C", "U+1113D", "U+1113E", "U+1113F">>,
    <<"U+111D0", "U+111D1", "U+111D2", "U+111D3", "U+111D4", "U+111D5", "U+111D6", "U+111D7", "U+111D8", "U+111D9">>,
    <<"U+112F0", "U+112F1", "U+112F2", "U+112F3", "U+112F4", "U+112F5", "U+112F6", "U+112F7", "U+112F8", "U+112F9">>,
    <<"U+11450", "U+11451", "U+11452", "U+11453", "U+11454", "U+11455", "U+11456", "U+11457", "U+11458", "U+11459">>,
    <<"U+114D0", "U+114D1", "U+114D2", "U+114D3", "U+114D4", "U+114D5", "U+114D6", "U+114D7", "U+114D8", "U+114D9">>,
    <<"U+11650", "U+11651", "U+11652", "U+11653", "U+11654", "U+11655", "U+11656", "U+11657", "U+11658", "U+11659">>,
    <<"U+116C0", "U+116C1", "U+116C2", "U+116C3", "U+116C4", "U+116C5", "U+116C6", "U+116C7", "U+116C8", "U+116C9">>,
    <<"U+11730", "U+11731", "U+11732", "U+11733", "U+11734", "U+11735", "U+11736", "U+11737", "U+11738", "U+11739">>,
    <<"U+118E0", "U+118E1", "U+118E2", "U+118E3", "U+118E4", "U+118E5", "U+118E6", "U+118E7", "U+118E8", "U+118E9">>,
    <<"U+11950", "U+11951", "U+11952", "U+11953", "U+11954", "U+11955", "U+11956", "U+11957", "U+11958", "U+11959">>,
    <<"U+11C50", "U+11C51", "U+11C52", "U+11C53", "U+11C54", "U+11C55", "U+11C56", "U+11C57", "U+11C58", "U+11C59">>,
    <<"U+11D50", "U+11D51", "U+11D52", "U+11D53", "U+11D54", "U+11D55", "U+11D56", "U+11D57", "U+11D58", "U+11D59">>,
    <<"U+11DA0", "U+11DA1", "U+11DA2", "U+11DA3", "U+11DA4", "U+11DA5", "U+11DA6", "U+11DA7", "U+11DA8", "U+11DA9">>,
    <<"U+11F50", "U+11F51", "U+11F52", "U+11F53", "U+11F54", "U+11F55", "U+11F56", "U+11F57", "U+11F58", "U+11F59">>,
    <<"U+16A60", "U+16A61", "U+16A62", "U+16A63", "U+16A64", "U+16A65", "U+16A66", "U+16A67", "U+16A68", "U+16A69">>,
    <<"U+16AC0", "U+16AC1", "U+16AC2", "U+16AC3", "U+16AC4", "U+16AC5", "U+16AC6", "U+16AC7", "U+16AC8", "U+16AC9">>,
    <<"U+16B50", "U+16B51", "U+16B52", "U+16B53", "U+16B54", "U+16B55", "U+16B56", "U+16B57", "U+16B58", "U+16B59">>,
    <<"U+1D7CE", "U+1D7CF", "U+1D7D0", "U+1D7D1", "U+1D7D2", "U+1D7D3", "U+1D7D4", "U+1D7D5", "U+1D7D6", "U+1D7D7">>,
    <<"U+1D7D8", "U+1D7D9", "U+1D7DA", "U+1D7DB", "U+1D7DC", "U+1D7DD", "U+1D7DE", "U+1D7DF", "U+1D7E0", "U+1D7E1">>,
    <<"U+1D7E2", "U+1D7E3", "U+1D7E4", "U+1D7E5", "U+1D7E6", "U+1D7E7", "U+1D7E8", "U+1D7E9", "U+1D7EA", "U+1D7EB">>,
    <<"U+1D7EC", "U+1D7ED", "U+1D7EE", "U+1D7EF", "U+1D7F0", "U+1D7F1", "U+1D7F2", "U+1D7F3", "U+1D7F4", "U+1D7F5">>,
    <<"U+1D7F6", "U+1D7F7", "U+1D7F8", "U+1D7F9", "U+1D7FA", "U+1D7FB", "U+1D7FC", "U+1D7FD", "U+1D7FE", "U+1D7FF">>,
    <<"U+1E140", "U+1E141", "U+1E142", "U+1E143", "U+1E144", "U+1E145", "U+1E146", "U+1E147", "U+1E148", "U+1E149">>,
    <<"U+1E2F0", "U+1E2F1", "U+1E2F2", "U+1E2F3", "U+1E2F4", "U+1E2F5", "U+1E2F6", "U+1E2F7", "U+1E2F8", "U+1E2F9">>,
    <<"U+1E4F0", "U+1E4F1", "U+1E4F2", "U+1E4F3", "U+1E4F4", "U+1E4F5", "U+1E4F6", "U+1E4F7", "U+1E4F8", "U+1E4F9">>,
    <<"U+1E950", "U+1E951", "U+1E952", "U+1E953", "U+1E954", "U+1E955", "U+1E956", "U+1E957", "U+1E958", "U+1E959">>,
    <<"U+1FBF0", "U+1FBF1", "U+1FBF2", "U+1FBF3", "U+1FBF4", "U+1FBF5", "U+1FBF6", "U+1FBF7", "U+1FBF8", "U+1FBF9">>
>>

\* The digit characters of each value
DigitSets == [v \in 0..9 |-> {DecimalDigits[r][v + 1] : r \in 1..Len(DecimalDigits)}]

IsDigit(c) == \E v \in 0..9 : c \in DigitSets[v]

\* The value of a decimal digit
DigitOf(c) == CHOOSE v \in 0..9 : c \in DigitSets[v]

\* value.split(',')
RECURSIVE Split(_)
Split(s) ==
    IF \A i \in 1..Len(s) : s[i] # ","
    THEN <<s>>
    ELSE LET i == CHOOSE k \in 1..Len(s) :
                      s[k] = "," /\ \A j \in 1..(k - 1) : s[j] # ","
         IN <<SubSeq(s, 1, i - 1)>> \o Split(SubSeq(s, i + 1, Len(s)))

\* The token without the white space int() ignores at its two ends
RECURSIVE Strip(_)
Strip(s) ==
    IF s = << >> THEN s
    ELSE IF s[1] \in Whitespace THEN Strip(Tail(s))
    ELSE IF s[Len(s)] \in Whitespace THEN Strip(SubSeq(s, 1, Len(s) - 1))
    ELSE s

\* The digits of a stripped token after its optional sign
Unsigned(s) == IF s # << >> /\ s[1] \in {"-", "+"} THEN Tail(s) ELSE s

\* sys.get_int_max_str_digits(), as CPython sets it by default: int()
\* raises ValueError for a token of more digits (underscores, the sign and
\* the surrounding white space are not counted)
IntMaxStrDigits == 4300

\* int(g) succeeds
IsInt(g) ==
    LET d == Unsigned(Strip(g))
    IN /\ d # << >>
       /\ Cardinality({i \in 1..Len(d) : d[i] # "_"}) <= IntMaxStrDigits
       /\ \A i \in 1..Len(d) :
             \/ IsDigit(d[i])
             \/ /\ d[i] = "_"
                /\ 1 < i /\ i < Len(d)
                /\ IsDigit(d[i - 1]) /\ IsDigit(d[i + 1])

\* The value of a string of decimal digits and separating underscores
RECURSIVE DigitsValue(_)
DigitsValue(d) ==
    IF d = << >> THEN 0
    ELSE IF d[Len(d)] = "_" THEN DigitsValue(SubSeq(d, 1, Len(d) - 1))
    ELSE 10 * DigitsValue(SubSeq(d, 1, Len(d) - 1)) + DigitOf(d[Len(d)])

\* int(g), for a token on which int() succeeds
IntOf(g) ==
    LET s == Strip(g)
    IN IF s[1] = "-" THEN 0 - DigitsValue(Unsigned(s)) ELSE DigitsValue(Unsigned(s))

\* _is_int(value, _prefix): True, or (FALSE here) the ValueError it raises
IsIntToken(g) == IsInt(g)

\* Lines 39-40, were the integers listed in token order, one per token.
InTokenOrder(tokens) == [i \in 1..Len(tokens) |-> IntOf(tokens[i])]

\* Lines 39-40: sorted(list({ int(g) for g in tokens })), for integer tokens
SortedUnique(tokens) == SortedList({IntOf(tokens[i]) : i \in 1..Len(tokens)})

\* sorted(list({ int(g) for g in value.split(',') if _is_int(g, prefix) })),
\* or the ValueError raised for the first token that is no integer
ParseVisible(value, prefix) ==
    LET tokens == Split(value)
        bad == {i \in 1..Len(tokens) : ~IsIntToken(tokens[i])}
    IN IF bad = {}
       THEN [status |-> "ok", list |-> SortedUnique(tokens),
             var |-> prefix, token |-> << >>]
       ELSE [status |-> "ValueError", list |-> << >>, var |-> prefix,
             token |-> tokens[CHOOSE i \in bad : \A j \in bad : i <= j]]

\* What HIP resolves to when HIP_VISIBLE_DEVICES is absent, were it to stay
\* unrestricted.
HipDefaultUnrestricted(parsed_cuda) == None

\* `parsed_hip = parsed_cuda` (line 48)
HipDefault(parsed_cuda) == parsed_cuda

\* GenuineImplementation.save_visible, lines 28-48: the Visible map, or the
\* ValueError of the first variable that does not parse
GenuineResolve(e) ==
    LET pc_ == IF IsNone(e.cuda) THEN [status |-> "ok"]
               ELSE ParseVisible(Val(e.cuda), "CUDA")
        ph_ == IF IsNone(e.hip) THEN [status |-> "ok"]
               ELSE ParseVisible(Val(e.hip), "HIP")
        parsed_cuda == IF IsNone(e.cuda) THEN None ELSE Some(pc_.list)
    IN IF pc_.status # "ok"
       THEN [status |-> "ValueError", var |-> pc_.var, token |-> pc_.token,
             cuda |-> None, hip |-> None]
       ELSE IF ph_.status # "ok"
       THEN [status |-> "ValueError", var |-> ph_.var, token |-> ph_.token,
             cuda |-> None, hip |-> None]
       ELSE [status |-> "ok", var |-> "", token |-> << >>,
             cuda |-> parsed_cuda,
             hip |-> IF IsNone(e.hip) THEN HipDefault(parsed_cuda) ELSE Some(ph_.list)]

\* GenuineImplementation.save_visible, lines 51-52:
\* `if cuda is not None: del os.environ['CUDA_VISIBLE_DEVICES']`, cuda being
\* the value read at line 28; del raises KeyError when the variable is absent
GenuineClearedCuda(e, cuda) ==
    IF IsNone(cuda) THEN [status |-> "ok", env |-> e]
    ELSE IF IsNone(e.cuda) THEN [status |-> "KeyError", env |-> e]
    ELSE [status |-> "ok", env |-> [e EXCEPT !.cuda = None]]

\* GenuineImplementation.save_visible, lines 53-54:
\* `if hip is not None: del os.environ['HIP_VISIBLE_DEVICES']`
GenuineClearedHip(e, hip) ==
    IF IsNone(hip) THEN [status |-> "ok", env |-> e]
    ELSE IF IsNone(e.hip) THEN [status |-> "KeyError", env |-> e]
    ELSE [status |-> "ok", env |-> [e EXCEPT !.hip = None]]

\* GenuineImplementation.save_visible: the environment after `if clear:`
\* (lines 50-54), or the KeyError of the first del that fails; cuda and hip
\* are the values read at lines 28-29
GenuineCleared(e, clear, cuda, hip) ==
    IF ~clear THEN [status |-> "ok", env |-> e]
    ELSE IF GenuineClearedCuda(e, cuda).status # "ok" THEN GenuineClearedCuda(e, cuda)
    ELSE GenuineClearedHip(GenuineClearedCuda(e, cuda).env, hip)

\* GenuineImplementation.save_visible: the finally clause (lines 58-63)
GenuineRestored(e, clear, cuda, hip) ==
    IF clear
    THEN [cuda |-> IF IsNone(cuda) THEN e.cuda ELSE cuda,
          hip |-> IF IsNone(hip) THEN e.hip ELSE hip]
    ELSE e

(***************************************************************************)
(* The native collaborator C (count, get, checkcuda, checkamd) is not part *)
(* of the sources at hand; it is modelled from the specification as a      *)
(* fixed device universe, enumerated with no allow-list set.               *)
(***************************************************************************)
NativeDevices == <<"CUDA", "HIP">>

\* C.count(), with both allow-list variables absent
NativeCount == Len(NativeDevices)

\* C.get(ord): the descriptor, or None for the out-of-range failure
NativeGet(ord) ==
    IF ord < 0 \/ ord >= Len(NativeDevices) THEN None
    ELSE Some([ord |-> ord, provider |-> NativeDevices[ord + 1],
               index |-> Cardinality({i \in 1..ord :
                                        NativeDevices[i] = NativeDevices[ord + 1]})])

\* C.checkcuda() == 0 / C.checkamd() == 0
NativeProviderCheck(provider) ==
    \E i \in 1..Len(NativeDevices) : ProviderOf(NativeDevices[i]) = provider

(***************************************************************************)
(* The backend interface, dispatched on the active backend.  A world w is  *)
(* the visibility state the backends read: [env, mock].                    *)
(***************************************************************************)
IsMock(impl) == impl = "mock"

\* _impl.provider_check(p)
ProviderCheck(impl, w, p) ==
    IF IsMock(impl) THEN MockProviderCheck(w.mock, p) ELSE NativeProviderCheck(p)

\* _impl.count()
Count(impl, w) == IF IsMock(impl) THEN MockCount(w.mock) ELSE NativeCount

\* _impl.get(ord)
Get(impl, w, ord) == IF IsMock(impl) THEN MockGet(w.mock, ord) ELSE NativeGet(ord)

\* visible.get(prov)
VisibleGet(visible, prov) == IF prov = CUDA THEN visible.cuda ELSE visible.hip

(***************************************************************************)
(* query, count and get: src/gpuinfo/__init__.py lines 233-375.            *)
(***************************************************************************)
\* The `required` argument: None, True or a provider mask
ReqNone == [kind |-> "None", mask |-> ANY]
ReqTrue == [kind |-> "True", mask |-> ANY]
ReqMask(m) == [kind |-> "mask", mask |-> m]

\* How a call ends.  exc is the Python exception type ("" on a return),
\* status tells the failures of one type apart; list, num and flag hold the
\* list, the int or the bool returned.
Outcome(status, exc) ==
    [status |-> status, exc |-> exc, list |-> << >>, num |-> 0,
     flag |-> FALSE, missing |-> << >>, var |-> "", token |-> << >>,
     visible |-> [cuda |-> None, hip |-> None]]

\* Properties(dev, local_index)
Properties(dev, local_index) ==
    [ord |-> dev.ord, provider |-> dev.provider,
     system_index |-> dev.index, local_index |-> local_index]

\* Properties.asdict(strip_index=True): the fields left once ord, index and
\* system_index are deleted.  The name and the hardware fields of a mock's
\* devices are those of its one template, the same for every mock here.
AsDictStripped(rec) == [provider |-> rec.provider, template |-> "MockDevice"]

\* Properties.__eq__(self, other), for two Properties records
PropertiesEq(self, other) ==
    IF self.local_index = other.local_index THEN TRUE
    ELSE AsDictStripped(self) = AsDictStripped(other)

\* [p for p in Provider if p & mask]
ProvidersIn(mask) == SelectSeq(ProviderList, LAMBDA p : BitAnd(p, mask) # 0)

\* query, lines 279-283, were no runtime ever checked.
RuntimeMissingNever(impl, w, required) == << >>

\* query, lines 279-283: the providers of `required` whose runtime is missing
RuntimeMissing(impl, w, required) ==
    SelectSeq(ProvidersIn(required.mask), LAMBDA p : ~ProviderCheck(impl, w, p))

\* query, lines 304-305, were a device to satisfy the requirement only when
\* it is also returned.
MarkSeenIfReturned(q, required, prov) ==
    IF q.required.kind # "None" /\ BitAnd(q.provider, prov) # 0
    THEN BitClear(required, prov) ELSE required

\* query, lines 304-305: mark the provider of a considered device as no
\* longer required
MarkSeen(q, required, prov) ==
    IF q.required.kind # "None" THEN BitClear(required, prov) ELSE required

\* query, lines 269-272: `required is True` sets the nonempty flag, were it
\* never to set it.
NonemptyNever(required) == FALSE

\* query, lines 269-272: `required is True` sets the nonempty flag
Nonempty(required) == required.kind = "True"

\* query, line 289, were only the nonempty flag to make the call fail.
ZeroDevicesFailsNonemptyOnly(required, nonempty) == nonempty

\* query, line 289: `required is not None or nonempty`
ZeroDevicesFails(required, nonempty) == required.kind # "None" \/ nonempty

\* query, line 314, were an empty list never to make the call fail.
NoSuitableNever(ret, nonempty) == FALSE

\* query, line 314: `not ret and nonempty`
NoSuitable(ret, nonempty) == ret = << >> /\ nonempty

\* query, line 301, were no device ever skipped.
SkipNever(visible_only, local_index) == FALSE

\* query, line 301: `visible_only and local_index is None`
Skip(visible_only, local_index) == visible_only /\ IsNone(local_index)

\* query, line 307, were every considered device appended.
KeepAll(provider, prov) == TRUE

\* query, line 307: `provider & prov`
Keep(provider, prov) == BitAnd(provider, prov) # 0

\* query, lines 295-308: the loop over range(num) from idx on; acc carries
\* the outstanding `required` mask and the list `ret`
RECURSIVE QueryLoop(_, _, _)
QueryLoop(q, idx, acc) ==
    IF idx >= q.num \/ acc.failed THEN acc
    ELSE LET dev == Get(q.impl, q.w, idx)
         IN IF IsNone(dev) THEN [acc EXCEPT !.failed = TRUE]
            ELSE LET prov == ProviderOf(Val(dev).provider)
                     local_index == GlobalToVisible(Val(dev).index,
                                                    VisibleGet(q.visible, prov))
                 IN IF Skip(q.visible_only, local_index)
                    THEN QueryLoop(q, idx + 1, acc)
                    ELSE QueryLoop(q, idx + 1,
                           [acc EXCEPT
                              !.required = MarkSeen(q, @, prov),
                              !.ret = IF Keep(q.provider, prov)
                                      THEN Append(@, Properties(Val(dev), local_index))
                                      ELSE @])

\* query, lines 286-317: the body of `with _impl.save_visible() as visible`
QueryBody(impl, w, visible, provider, required, visible_only) ==
    LET num == Count(impl, w)
        nonempty == Nonempty(required)
        acc == QueryLoop([impl |-> impl, w |-> w, visible |-> visible,
                          provider |-> NormalizeProvider(provider),
                          required |-> required, visible_only |-> visible_only,
                          num |-> num],
                         0, [required |-> required.mask, ret |-> << >>, failed |-> FALSE])
    IN IF num = 0
       THEN IF ZeroDevicesFails(required, nonempty)
            THEN Outcome("NoGPUsDetected", "RuntimeError")
            ELSE Outcome("ok", "")
       ELSE IF acc.failed THEN Outcome("BackendIndexError", "IndexError")
       ELSE IF required.kind # "None" /\ acc.required # 0
       THEN [Outcome("MissingProviders", "RuntimeError")
                EXCEPT !.missing = ProvidersIn(acc.required)]
       ELSE IF NoSuitable(acc.ret, nonempty)
       THEN Outcome("NoSuitableGPUs", "RuntimeError")
       ELSE [Outcome("ok", "") EXCEPT !.list = acc.ret]

\* count, line 345: len(query(...))
CountOfQuery(q) == IF q.exc = "" THEN [q EXCEPT !.num = Len(q.list), !.list = << >>] ELSE q

\* get, lines 370-375: index the list query returned
GetOfQuery(q, idx) ==
    IF q.exc # "" THEN q
    ELSE IF q.list = << >> THEN Outcome("NoGPUsAvailable", "RuntimeError")
    ELSE IF idx < 0 \/ idx >= Len(q.list) THEN Outcome("InvalidGPUIndex", "ValueError")
    ELSE [q EXCEPT !.list = <<q.list[idx + 1]>>]

\* count, line 337, and get, line 361: the call takes the path that does not
\* go through query
FastPath(c) ==
    \/ c.kind = "count" /\ NormalizeProvider(c.provider) = ALL
    \/ c.kind = "get" /\ NormalizeProvider(c.provider) = ALL /\ ~c.visible_only

(***************************************************************************)
(* The calls as processes: a thread starts a call, enters save_visible,    *)
(* runs the body of the with statement, leaves save_visible and returns.   *)
(***************************************************************************)
World == [env |-> env, mock |-> mock]

NoCall == [kind |-> "none", provider |-> None, required |-> ReqNone,
           visible_only |-> FALSE, idx |-> 0, cur |-> 0, clear |-> TRUE,
           impl |-> None]

NoResult == Outcome("none", "")

QueryCall(provider, required, visible_only) ==
    [NoCall EXCEPT !.kind = "query", !.provider = provider,
                   !.required = required, !.visible_only = visible_only]

CountCall(provider, visible_only) ==
    [NoCall EXCEPT !.kind = "count", !.provider = provider,
                   !.visible_only = visible_only]

GetCall(idx, provider, visible_only) ==
    [NoCall EXCEPT !.kind = "get", !.provider = provider,
                   !.visible_only = visible_only, !.idx = idx, !.cur = idx]

\* `with _impl.save_visible(clear):` called by itself
ScopeCall(clear) == [NoCall EXCEPT !.kind = "save_visible", !.clear = clear]

\* hascuda() and hasamd()
HasCuda == [NoCall EXCEPT !.kind = "hascuda"]
HasAmd == [NoCall EXCEPT !.kind = "hasamd"]

\* _get_impl().get(ord) and _get_impl().count(), called on the backend
\* itself with no save_visible scope open
BackendGetCall(ord) == [NoCall EXCEPT !.kind = "backend_get", !.idx = ord, !.cur = ord]
BackendCountCall == [NoCall EXCEPT !.kind = "backend_count"]

\* How a call on the backend itself ends: the descriptor or the IndexError
\* of get, the number of count
BackendResult(impl, w, c) ==
    IF c.kind = "backend_count"
    THEN [Outcome("ok", "") EXCEPT !.num = Count(impl, w)]
    ELSE IF IsNone(Get(impl, w, c.idx))
    THEN Outcome("BackendIndexError", "IndexError")
    ELSE [Outcome("ok", "") EXCEPT !.list = <<Val(Get(impl, w, c.idx))>>]

\* The call c with the keyword argument impl=b added
WithImpl(c, b) == [c EXCEPT !.impl = Some(b)]

\* query (line 233), count (line 320) and get (line 348) have no parameter
\* named impl: a call that passes one raises TypeError when it is bound.
UnexpectedKeyword(c) == c.kind \in {"query", "count", "get"} /\ ~IsNone(c.impl)

\* hascuda, line 379, and hasamd, line 383
HasProvider(impl, w, c) ==
    ProviderCheck(impl, w, IF c.kind = "hascuda" THEN CUDA ELSE HIP)

\* The arguments the query made by a call is given (lines 345 and 370 pass
\* required=None)
QueryRequired(c) == IF c.kind = "query" THEN c.required ELSE ReqNone

\* A thread calls query, count, get, hascuda, hasamd or save_visible, or a
\* method of the backend.  hascuda, hasamd and the backend's methods return
\* at once.  A call that goes through query runs
\* lines 269-283 first: _impl = _get_impl() and the runtime checks, which
\* end the call before any scope is opened.
Call(t, c) ==
    /\ pc[t] = "idle"
    /\ call' = [call EXCEPT ![t] = c]
    /\ start' = [start EXCEPT ![t] = World]
    /\ LET missing == RuntimeMissing(GetImpl(cell, t), World, QueryRequired(c))
           checked == c.kind # "save_visible" /\ ~FastPath(c)
       IN IF UnexpectedKeyword(c)
          THEN /\ result' = [result EXCEPT ![t] =
                               Outcome("UnexpectedKeyword", "TypeError")]
               /\ pc' = [pc EXCEPT ![t] = "done"]
          ELSE IF c.kind \in {"hascuda", "hasamd"}
          THEN /\ result' = [result EXCEPT ![t] =
                               [Outcome("ok", "") EXCEPT
                                  !.flag = HasProvider(GetImpl(cell, t), World, c)]]
               /\ pc' = [pc EXCEPT ![t] = "done"]
          ELSE IF c.kind \in {"backend_get", "backend_count"}
          THEN /\ result' = [result EXCEPT ![t] =
                               BackendResult(GetImpl(cell, t), World, c)]
               /\ pc' = [pc EXCEPT ![t] = "done"]
          ELSE IF checked /\ missing # << >>
          THEN /\ result' = [result EXCEPT ![t] =
                               [Outcome("RuntimeMissing", "RuntimeError")
                                  EXCEPT !.missing = <<missing[1]>>]]
               /\ pc' = [pc EXCEPT ![t] = "done"]
          ELSE /\ result' = [result EXCEPT ![t] = NoResult]
               /\ pc' = [pc EXCEPT ![t] =
                           IF c.kind = "count" /\ FastPath(c) /\ c.visible_only
                           THEN "body" ELSE "enter"]
    /\ UNCHANGED <<env, mock, mockArgs, frames>>
    /\ UNCHANGED scopeVars

\* save_visible up to its yield: read, parse, clear.
Enter(t) ==
    /\ pc[t] = "enter"
    /\ LET impl == GetImpl(cell, t)
           clear == call[t].clear
           r == GenuineResolve(env)
           cleared == GenuineCleared(env, clear, env.cuda, env.hip)
       IN IF IsMock(impl)
          THEN /\ frames' = [frames EXCEPT ![t] = Append(@,
                               [impl |-> impl, clear |-> clear,
                                cuda |-> mock.cuda_visible, hip |-> mock.hip_visible,
                                visible |-> MockVisibleMap(mock)])]
               /\ mock' = MockCleared(mock, clear)
               /\ pc' = [pc EXCEPT ![t] = "body"]
               /\ UNCHANGED <<env, result>>
          ELSE IF r.status = "ValueError"
          THEN /\ result' = [result EXCEPT ![t] =
                               [Outcome("InvalidVisibleDevices", "ValueError")
                                  EXCEPT !.var = r.var, !.token = r.token]]
               /\ pc' = [pc EXCEPT ![t] = IF frames[t] = << >> THEN "done" ELSE "exit"]
               /\ UNCHANGED <<env, mock, frames>>
          ELSE IF cleared.status = "KeyError"
          THEN /\ result' = [result EXCEPT ![t] = Outcome("KeyError", "KeyError")]
               /\ env' = cleared.env
               /\ pc' = [pc EXCEPT ![t] = IF frames[t] = << >> THEN "done" ELSE "exit"]
               /\ UNCHANGED <<mock, frames>>
          ELSE /\ frames' = [frames EXCEPT ![t] = Append(@,
                               [impl |-> impl, clear |-> clear,
                                cuda |-> env.cuda, hip |-> env.hip,
                                visible |-> [cuda |-> r.cuda, hip |-> r.hip]])]
               /\ env' = cleared.env
               /\ pc' = [pc EXCEPT ![t] = "body"]
               /\ UNCHANGED <<mock, result>>
    /\ UNCHANGED <<mockArgs, call, start>>
    /\ UNCHANGED scopeVars

\* get, lines 363-366: ret = _impl.get(idx); prov = Provider[ret.provider];
\* then line 366, `visible_set = visible,get(prov)`, builds a tuple whose
\* second item is a call of this module's get with idx = prov.  `next` is
\* the idx of that nested call; `out` is set when the step raises instead.
GetFast(impl, w, visible, idx, depth) ==
    LET dev == Get(impl, w, idx)
    IN IF IsNone(dev) THEN [next |-> None, out |-> Outcome("BackendIndexError", "IndexError")]
       ELSE IF depth >= RecursionLimit
       THEN [next |-> None, out |-> Outcome("RecursionError", "RecursionError")]
       ELSE [next |-> Some(ProviderOf(Val(dev).provider)), out |-> NoResult]

\* The body of the with statement of the running call, entered at the
\* position `at` and reading the backend's state from w.
BodyIn(t, at, w) ==
    /\ pc[t] = at
    /\ LET impl == GetImpl(cell, t)
           c == call[t]
           d == Len(frames[t])
           visible == frames[t][d].visible
           q == QueryBody(impl, w, visible, c.provider, QueryRequired(c),
                          c.visible_only)
           g == GetFast(impl, w, visible, c.cur, d)
           after == IF d = 0 THEN "done" ELSE "exit"
       IN IF c.kind = "save_visible"
          THEN /\ result' = [result EXCEPT ![t] =
                               [Outcome("ok", "") EXCEPT !.visible = visible]]
               /\ pc' = [pc EXCEPT ![t] = after]
               /\ UNCHANGED call
          ELSE IF c.kind = "count" /\ FastPath(c)
          THEN /\ result' = [result EXCEPT ![t] =
                               [Outcome("ok", "") EXCEPT !.num = Count(impl, w)]]
               /\ pc' = [pc EXCEPT ![t] = after]
               /\ UNCHANGED call
          ELSE IF c.kind = "get" /\ FastPath(c)
          THEN IF IsNone(g.next)
               THEN /\ result' = [result EXCEPT ![t] = g.out]
                    /\ pc' = [pc EXCEPT ![t] = after]
                    /\ UNCHANGED call
               ELSE /\ call' = [call EXCEPT ![t].cur = Val(g.next)]
                    /\ pc' = [pc EXCEPT ![t] = "enter"]
                    /\ UNCHANGED result
          ELSE /\ result' = [result EXCEPT ![t] =
                               IF c.kind = "count" THEN CountOfQuery(q)
                               ELSE IF c.kind = "get" THEN GetOfQuery(q, c.idx)
                               ELSE q]
               /\ pc' = [pc EXCEPT ![t] = after]
               /\ UNCHANGED call
    /\ UNCHANGED <<env, mock, mockArgs, frames, start>>
    /\ UNCHANGED scopeVars

\* The body of the with statement of the running call, run by one thread:
\* nothing else runs between its reads of the backend's state.
Body(t) == BodyIn(t, "body", World)

\* save_visible after its yield: the finally clause of the innermost open
\* scope, on a return and on an exception alike.
Exit(t) ==
    /\ pc[t] = "exit"
    /\ LET d == Len(frames[t])
           f == frames[t][d]
       IN /\ IF IsMock(f.impl)
             THEN /\ mock' = MockRestored(mock, f.clear, f.cuda, f.hip)
                  /\ UNCHANGED env
             ELSE /\ env' = GenuineRestored(env, f.clear, f.cuda, f.hip)
                  /\ UNCHANGED mock
          /\ frames' = [frames EXCEPT ![t] = SubSeq(@, 1, d - 1)]
          /\ pc' = [pc EXCEPT ![t] = IF d = 1 THEN "done" ELSE "exit"]
    /\ UNCHANGED <<mockArgs, call, start, result>>
    /\ UNCHANGED scopeVars

\* The caller takes the result; the thread is free for its next call.
Return(t) ==
    /\ pc[t] = "done"
    /\ pc' = [pc EXCEPT ![t] = "idle"]
    /\ call' = [call EXCEPT ![t] = NoCall]
    /\ result' = [result EXCEPT ![t] = NoResult]
    /\ start' = [start EXCEPT ![t] = World]
    /\ UNCHANGED <<env, mock, mockArgs, frames>>
    /\ UNCHANGED scopeVars

(***************************************************************************)
(* save_visible statement by statement, for threads that run it at the     *)
(* same time: another thread can run between any two statements.  The      *)
(* locals `cuda` and `hip` of a running save_visible are kept in the       *)
(* thread's innermost frame.                                               *)
(***************************************************************************)
\* MockImplementation.save_visible, line 155, were it to restore nothing.
MockRestoredCudaNothing(m, cuda) == m

\* MockImplementation.save_visible, line 155: self.cuda_visible = cuda
MockRestoredCuda(m, cuda) == [m EXCEPT !.cuda_visible = cuda]

\* MockImplementation.save_visible, line 156: self.hip_visible = hip
MockRestoredHip(m, hip) == [m EXCEPT !.hip_visible = hip]

\* GenuineImplementation.save_visible, lines 60-61, were it to restore nothing.
GenuineRestoredCudaNothing(e, cuda) == e

\* GenuineImplementation.save_visible, lines 60-61:
\* if cuda is not None: os.environ['CUDA_VISIBLE_DEVICES'] = cuda
GenuineRestoredCuda(e, cuda) == IF IsNone(cuda) THEN e ELSE [e EXCEPT !.cuda = cuda]

\* GenuineImplementation.save_visible, lines 62-63:
\* if hip is not None: os.environ['HIP_VISIBLE_DEVICES'] = hip
GenuineRestoredHip(e, hip) == IF IsNone(hip) THEN e ELSE [e EXCEPT !.hip = hip]

\* The frame of thread t is dropped and its call ends with outcome out.
EndCall(t, out) ==
    /\ result' = [result EXCEPT ![t] = out]
    /\ frames' = [frames EXCEPT ![t] = SubSeq(@, 1, Len(@) - 1)]
    /\ pc' = [pc EXCEPT ![t] = "done"]

\* Mock line 144: cuda = self.cuda_visible.copy()
\* Genuine line 28: cuda = os.environ.get('CUDA_VISIBLE_DEVICES', None)
SaveCuda(t) ==
    /\ pc[t] = "enter"
    /\ frames' = [frames EXCEPT ![t] = Append(@,
                     [impl |-> GetImpl(cell, t), clear |-> call[t].clear,
                      cuda |-> IF IsMock(GetImpl(cell, t)) THEN mock.cuda_visible
                               ELSE env.cuda,
                      hip |-> << >>,
                      visible |-> [cuda |-> None, hip |-> None]])]
    /\ pc' = [pc EXCEPT ![t] = "save_hip"]
    /\ UNCHANGED <<env, mock, mockArgs, call, start, result>>
    /\ UNCHANGED scopeVars

\* Mock line 145: hip = self.hip_visible.copy()
\* Genuine lines 29-48: hip = os.environ.get('HIP_VISIBLE_DEVICES', None),
\* then the two values read are parsed; a ValueError ends the call.
SaveHip(t) ==
    /\ pc[t] = "save_hip"
    /\ LET d == Len(frames[t])
           f == frames[t][d]
           r == GenuineResolve([cuda |-> f.cuda, hip |-> env.hip])
           next == IF f.clear THEN "clear_cuda" ELSE "body"
       IN IF IsMock(f.impl)
          THEN /\ frames' = [frames EXCEPT ![t][d] =
                               [f EXCEPT !.hip = mock.hip_visible,
                                         !.visible = [cuda |-> Some(f.cuda),
                                                      hip |-> Some(mock.hip_visible)]]]
               /\ pc' = [pc EXCEPT ![t] = next]
               /\ UNCHANGED result
          ELSE IF r.status = "ValueError"
          THEN EndCall(t, [Outcome("InvalidVisibleDevices", "ValueError")
                             EXCEPT !.var = r.var, !.token = r.token])
          ELSE /\ frames' = [frames EXCEPT ![t][d] =
                               [f EXCEPT !.hip = env.hip,
                                         !.visible = [cuda |-> r.cuda, hip |-> r.hip]]]
               /\ pc' = [pc EXCEPT ![t] = next]
               /\ UNCHANGED result
    /\ UNCHANGED <<env, mock, mockArgs, call, start>>
    /\ UNCHANGED scopeVars

\* Mock line 148: self.cuda_visible = list(range(self.cuda_count or 0))
\* Genuine lines 51-52: del os.environ['CUDA_VISIBLE_DEVICES'] when the
\* value read was not None; del raises KeyError when the variable is no
\* longer there, before the try statement is reached.
ClearCuda(t) ==
    /\ pc[t] = "clear_cuda"
    /\ LET f == frames[t][Len(frames[t])]
       IN IF IsMock(f.impl)
          THEN /\ mock' = [mock EXCEPT !.cuda_visible = RangeList(OrZero(mock.cuda_count))]
               /\ pc' = [pc EXCEPT ![t] = "clear_hip"]
               /\ UNCHANGED <<env, frames, result>>
          ELSE IF GenuineClearedCuda(env, f.cuda).status = "KeyError"
          THEN EndCall(t, Outcome("KeyError", "KeyError")) /\ UNCHANGED <<env, mock>>
          ELSE /\ env' = GenuineClearedCuda(env, f.cuda).env
               /\ pc' = [pc EXCEPT ![t] = "clear_hip"]
               /\ UNCHANGED <<mock, frames, result>>
    /\ UNCHANGED <<mockArgs, call, start>>
    /\ UNCHANGED scopeVars

\* Mock line 149: self.hip_visible = list(range(self.hip_count or 0))
\* Genuine lines 53-54: del os.environ['HIP_VISIBLE_DEVICES'], as above;
\* then the yield.
ClearHip(t) ==
    /\ pc[t] = "clear_hip"
    /\ LET f == frames[t][Len(frames[t])]
       IN IF IsMock(f.impl)
          THEN /\ mock' = [mock EXCEPT !.hip_visible = RangeList(OrZero(mock.hip_count))]
               /\ pc' = [pc EXCEPT ![t] = "body"]
               /\ UNCHANGED <<env, frames, result>>
          ELSE IF GenuineClearedHip(env, f.hip).status = "KeyError"
          THEN EndCall(t, Outcome("KeyError", "KeyError")) /\ UNCHANGED <<env, mock>>
          ELSE /\ env' = GenuineClearedHip(env, f.hip).env
               /\ pc' = [pc EXCEPT ![t] = "body"]
               /\ UNCHANGED <<mock, frames, result>>
    /\ UNCHANGED <<mockArgs, call, start>>
    /\ UNCHANGED scopeVars

\* The body of a bare `with impl.save_visible(clear):` scope.
ScopeBody(t) == call[t].kind = "save_visible" /\ Body(t)

\* query on a mock, line 286: num = _impl.count(), which is
\* len(self.cuda_visible) + len(self.hip_visible) (impl.py line 159); the
\* two lists are read one after the other and another thread can run in
\* between.  This step reads the first length, kept in call[t].cur.
CountCuda(t) ==
    /\ pc[t] = "body"
    /\ call[t].kind = "query"
    /\ IsMock(GetImpl(cell, t))
    /\ call' = [call EXCEPT ![t].cur = Len(mock.cuda_visible)]
    /\ pc' = [pc EXCEPT ![t] = "count_hip"]
    /\ UNCHANGED <<env, mock, mockArgs, frames, start, result>>
    /\ UNCHANGED scopeVars

\* query on a mock: the second length is read and the rest of the body runs;
\* it reads nothing more of the lists (get looks at the counts only).
CountHip(t) ==
    BodyIn(t, "count_hip",
           [World EXCEPT !.mock.cuda_visible = RangeList(call[t].cur)])

\* The finally clause, first assignment.  Mock line 155;
\* Genuine lines 60-61: os.environ['CUDA_VISIBLE_DEVICES'] = cuda
RestoreCuda(t) ==
    /\ pc[t] = "exit"
    /\ LET f == frames[t][Len(frames[t])]
       IN IF ~f.clear THEN UNCHANGED <<env, mock>>
          ELSE IF IsMock(f.impl)
          THEN mock' = MockRestoredCuda(mock, f.cuda) /\ UNCHANGED env
          ELSE /\ env' = GenuineRestoredCuda(env, f.cuda)
               /\ UNCHANGED mock
    /\ pc' = [pc EXCEPT ![t] = "restore_hip"]
    /\ UNCHANGED <<mockArgs, call, frames, start, result>>
    /\ UNCHANGED scopeVars

\* The finally clause, second assignment.  Mock line 156;
\* Genuine lines 62-63: os.environ['HIP_VISIBLE_DEVICES'] = hip
RestoreHip(t) ==
    /\ pc[t] = "restore_hip"
    /\ LET d == Len(frames[t])
           f == frames[t][d]
       IN /\ IF ~f.clear THEN UNCHANGED <<env, mock>>
             ELSE IF IsMock(f.impl)
             THEN mock' = MockRestoredHip(mock, f.hip) /\ UNCHANGED env
             ELSE /\ env' = GenuineRestoredHip(env, f.hip)
                  /\ UNCHANGED mock
          /\ frames' = [frames EXCEPT ![t] = SubSeq(@, 1, d - 1)]
    /\ pc' = [pc EXCEPT ![t] = "done"]
    /\ UNCHANGED <<mockArgs, call, start, result>>
    /\ UNCHANGED scopeVars

(***************************************************************************)
(* Specifications.                                                         *)
(***************************************************************************)
\* The arguments of MockImplementation(...)
MockCounts == {None} \cup {Some(n) : n \in 0..MaxCount}
MockVisibles == {None} \cup {Some(SortedList(S)) : S \in SUBSET (0..(MaxCount - 1))}
MockArgs == [cuda_count : MockCounts, hip_count : MockCounts,
             cuda_visible : MockVisibles, hip_visible : MockVisibles]

\* The visibility argument hides at least one of the `count` devices, or is
\* None: every list a mock of that count can hold is built by one of these.
Hiding(count, visible) ==
    \/ IsNone(visible)
    \/ /\ \A i \in 1..Len(Val(visible)) : Val(visible)[i] < OrZero(count)
       /\ Len(Val(visible)) < OrZero(count)

\* MockImplementation(): the default arguments (lines 74-77)
DefaultMockArgs == [cuda_count |-> Some(1), hip_count |-> None,
                    cuda_visible |-> None, hip_visible |-> None]

MockOf(a) == MockNew(a.cuda_count, a.hip_count, a.cuda_visible, a.hip_visible)

\* Values of an allow-list variable: absent, or one of a few strings
EnvSamples == {None, Some(<<"0">>), Some(<<"1">>),
               Some(<<"1", ",", "0">>), Some(<<"x">>), Some(<<"-", "1">>),
               Some(<<"-", "1", ",", "0">>)}

\* Longer values of an allow-list variable: "2,0,1", "1,1,0,2" and "2,x"
EnvLists == {Some(<<"2", ",", "0", ",", "1">>),
             Some(<<"1", ",", "1", ",", "0", ",", "2">>),
             Some(<<"2", ",", "x">>)}

\* Values whose tokens use the other forms int() takes or refuses: "1_0",
\* a tab and a line feed around tokens, ARABIC-INDIC DIGIT THREE, a no-break
\* space and a sign before FULLWIDTH DIGIT ONE, "1,_1" and "1__0"
EnvForms == {Some(<<"1", "_", "0">>),
             Some(<<"\t", "1", ",", "0", "\n">>),
             Some(<<"U+0663">>),
             Some(<<"U+00A0", "+", "U+FF11">>),
             Some(<<"1", ",", "_", "1">>),
             Some(<<"1", "_", "_", "0">>)}

\* Values of an allow-list variable: absent, or any string of at most
\* MaxEnvLen characters
EnvAlphabet == {"0", "1", "-", "x", ","}
EnvStrings == {None} \cup
              {Some(str) : str \in UNION {[1..n -> EnvAlphabet] : n \in 0..MaxEnvLen}}

ProviderArgs == {None, Some(ANY), Some(CUDA), Some(HIP), Some(ALL)}
RequiredArgs == {ReqNone, ReqTrue} \cup {ReqMask(m) : m \in {ANY, CUDA, HIP, ALL}}
IdxArgs == (0 - 1)..(2 * MaxCount)

\* count(impl=b), get(0, impl=b) and query(impl=b), as in tests/test_api.py
ImplCalls ==
    {WithImpl(c, b) : c \in {CountCall(Some(ALL), FALSE), GetCall(0, Some(ALL), FALSE),
                             QueryCall(Some(ANY), ReqNone, TRUE)},
                      b \in {"mock"}}

EngineCalls ==
    {QueryCall(p, r, v) : p \in ProviderArgs, r \in RequiredArgs, v \in BOOLEAN}
    \cup {CountCall(p, v) : p \in ProviderArgs, v \in BOOLEAN}
    \cup {GetCall(i, p, v) : i \in IdxArgs, p \in ProviderArgs, v \in BOOLEAN}
    \cup {HasCuda, HasAmd}
    \cup ImplCalls
    \cup {BackendGetCall(i) : i \in IdxArgs}
    \cup {BackendCountCall}

\* No call is running.
EngineIdle ==
    /\ pc = [t \in Threads |-> "idle"]
    /\ call = [t \in Threads |-> NoCall]
    /\ frames = [t \in Threads |-> << >>]
    /\ result = [t \in Threads |-> NoResult]
    /\ start = [t \in Threads |-> World]

\* Thread t1 is inside `with _with_impl(mock):` (as inside `with G.mock(...)`).
ScopeInMock ==
    /\ cell = [t \in Threads |-> IF t = "t1" THEN "mock" ELSE "unset"]
    /\ scopes = [t \in Threads |-> IF t = "t1" THEN <<DefaultImpl>> ELSE << >>]
    /\ entered = scopes
    /\ last = [kind |-> "enter", thread |-> "t1", ret |-> "None"]
    /\ installed = [t \in Threads |-> IF t = "t1" THEN "scoped" ELSE "nothing"]

\* The query engine, called by one thread: on a mock of any construction
\* with no allow-list variable set, or on the default (Genuine) backend with
\* the allow-list variables set in the environment.
InitMock ==
    /\ ScopeInMock
    /\ mockArgs \in {a \in MockArgs : /\ Hiding(a.cuda_count, a.cuda_visible)
                                      /\ Hiding(a.hip_count, a.hip_visible)}
    /\ mock = MockOf(mockArgs)
    /\ env = [cuda |-> None, hip |-> None]
    /\ EngineIdle

InitGenuine ==
    /\ ScopeInit
    /\ mockArgs = DefaultMockArgs
    /\ mock = MockOf(mockArgs)
    /\ env \in [cuda : EnvSamples, hip : EnvSamples]
    /\ EngineIdle

Init == InitMock \/ InitGenuine

\* C.count() and C.get() are modelled with no allow-list set only: the
\* calls that reach them under the ambient environment are left to mocks.
Callable(t, c) ==
    \/ IsMock(GetImpl(cell, t))
    \/ /\ ~(c.kind = "count" /\ FastPath(c) /\ c.visible_only)
       /\ c.kind \notin {"backend_get", "backend_count"}

Next ==
    \/ \E c \in EngineCalls : Callable("t1", c) /\ Call("t1", c)
    \/ Enter("t1")
    \/ Body("t1")
    \/ Exit("t1")
    \/ Return("t1")

Spec == Init /\ [][Next]_vars

\* The scope manager, used by all threads.
InitScope ==
    /\ ScopeInit
    /\ mockArgs = DefaultMockArgs
    /\ mock = MockOf(mockArgs)
    /\ env = [cuda |-> None, hip |-> None]
    /\ EngineIdle

NextScope ==
    \/ \E t \in Threads, impl \in Installable :
          SetImpl(t, impl) /\ UNCHANGED engineVars
    \/ \E t \in Threads, impl \in Installable :
          EnterWith(t, impl) /\ UNCHANGED engineVars
    \/ \E t \in Threads, exc \in BOOLEAN :
          ExitWith(t, exc) /\ UNCHANGED engineVars

SpecScope == InitScope /\ [][NextScope]_vars

\* save_visible of the default (Genuine) backend, entered and left by one
\* thread, one allow-list variable holding any string and the other one of
\* the samples, or one holding a longer list and the other absent or a list.
InitEnv ==
    /\ ScopeInit
    /\ mockArgs = DefaultMockArgs
    /\ mock = MockOf(mockArgs)
    /\ \/ env \in [cuda : EnvStrings, hip : EnvSamples]
       \/ env \in [cuda : EnvSamples, hip : EnvStrings]
       \/ env \in [cuda : EnvLists, hip : EnvLists \cup {None}]
       \/ env \in [cuda : {None}, hip : EnvLists]
       \/ env \in [cuda : EnvForms, hip : EnvForms \cup {None}]
    /\ EngineIdle

NextEnv ==
    \/ \E clear \in BOOLEAN : Call("t1", ScopeCall(clear))
    \/ Enter("t1")
    \/ Body("t1")
    \/ Exit("t1")
    \/ Return("t1")

SpecEnv == InitEnv /\ [][NextEnv]_vars

\* Both threads are inside `with _with_impl(m):` of one mock instance m.
ScopeBothInMock ==
    /\ cell = [t \in Threads |-> "mock"]
    /\ scopes = [t \in Threads |-> <<DefaultImpl>>]
    /\ entered = scopes
    /\ last = [kind |-> "enter", thread |-> "t2", ret |-> "None"]
    /\ installed = [t \in Threads |-> "scoped"]

\* The calls of the threads that run at the same time
RaceCallsMock == {ScopeCall(TRUE), ScopeCall(FALSE), QueryCall(None, ReqNone, TRUE)}
RaceCallsGenuine == {ScopeCall(TRUE)}

\* Each thread has just called (it is about to run the first statement of
\* save_visible) or makes no call at all.
RaceStart(calls) ==
    /\ call \in [Threads -> calls \cup {NoCall}]
    /\ pc = [t \in Threads |-> IF call[t] = NoCall THEN "idle" ELSE "enter"]
    /\ frames = [t \in Threads |-> << >>]
    /\ result = [t \in Threads |-> NoResult]
    /\ start = [t \in Threads |-> World]

\* Two threads on one mock instance that hides a device, and two threads on
\* the default (Genuine) backend with the allow-list variables set.
InitRaceMock ==
    /\ ScopeBothInMock
    /\ mockArgs \in {a \in MockArgs : /\ Hiding(a.cuda_count, a.cuda_visible)
                                      /\ Hiding(a.hip_count, a.hip_visible)
                                      /\ MockCleared(MockOf(a), TRUE) # MockOf(a)}
    /\ mock = MockOf(mockArgs)
    /\ env = [cuda |-> None, hip |-> None]
    /\ RaceStart(RaceCallsMock)

InitRaceGenuine ==
    /\ ScopeInit
    /\ mockArgs = DefaultMockArgs
    /\ mock = MockOf(mockArgs)
    /\ env \in [cuda : {None, Some(<<"0">>), Some(<<"1", ",", "0">>)},
                 hip : {None, Some(<<"1">>)}]
    /\ RaceStart(RaceCallsGenuine)

InitRace == InitRaceMock \/ InitRaceGenuine

NextRace ==
    \E t \in Threads :
       \/ SaveCuda(t)
       \/ SaveHip(t)
       \/ ClearCuda(t)
       \/ ClearHip(t)
       \/ ScopeBody(t)
       \/ CountCuda(t)
       \/ CountHip(t)
       \/ RestoreCuda(t)
       \/ RestoreHip(t)

SpecRace == InitRace /\ [][NextRace]_vars

(***************************************************************************)
(* Properties of the scope manager, checked under SpecScope.               *)
(***************************************************************************)
\* C1: when a _with_impl scope of a thread exits, by a normal return or by
\* an exception raised inside it, the backend active on that thread is
\* again the one that was active immediately before the scope was entered;
\* and on a thread that only ever used scoped overrides the active backend
\* is the process-wide default once the outermost scope has exited.
C1_ScopeExitRestores ==
    [][\A t \in Threads :
          Len(scopes'[t]) < Len(scopes[t]) =>
             /\ GetImpl(cell', t) = entered[t][Len(entered[t])]
             /\ (scopes'[t] = << >> /\ installed[t] = "scoped")
                   => GetImpl(cell', t) = DefaultImpl]_vars

\* A nested scope was left by an exception and the mock installed by the
\* enclosing scope is active again.
C1_Witness ==
    /\ last.kind = "raise"
    /\ last.thread = "t1"
    /\ Len(scopes["t1"]) = 1
    /\ installed["t1"] = "scoped"
    /\ GetImpl(cell, "t1") = "mock"

\* C5: a step of one thread (a setter call, a scope entry or a scope exit)
\* never changes the backend another thread resolves as active, and a
\* thread that has installed nothing resolves the process-wide default.
C5_CellIsPerThread ==
    /\ [](\A t \in Threads : installed[t] = "nothing" => GetImpl(cell, t) = DefaultImpl)
    /\ [][\A u \in Threads :
             u # last'.thread => GetImpl(cell', u) = GetImpl(cell, u)]_vars

\* Thread t1 is inside an override scope with the mock active while thread
\* t2, which installed nothing, resolves the default.
C5_Witness ==
    /\ last.thread = "t1"
    /\ scopes["t1"] # << >>
    /\ GetImpl(cell, "t1") = "mock"
    /\ installed["t2"] = "nothing"
    /\ GetImpl(cell, "t2") = DefaultImpl

\* C6: after None is installed, by the setter or by a scoped override, the
\* active backend resolves to the process-wide default, never to None.
C6_NoneResolvesToDefault ==
    \A t \in Threads : cell[t] = "None" => GetImpl(cell, t) = DefaultImpl

\* C7: the direct setter returns the backend that was active on the calling
\* thread immediately before the call.
C7_SetterReturnsPrevious ==
    [][last'.kind = "set" => last'.ret = GetImpl(cell, last'.thread)]_vars

(***************************************************************************)
(* Properties of the query engine, checked under Spec.                     *)
(***************************************************************************)
\* The backend thread t calls, and whether its call (one that passed no
\* impl keyword) has ended
Active(t) == GetImpl(cell, t)
Ended(t, kind) == pc[t] = "done" /\ call[t].kind = kind /\ IsNone(call[t].impl)

\* The devices of the active backend when the call of t started
TotalDevices(t) ==
    IF IsMock(Active(t)) THEN start[t].mock.overall_count ELSE NativeCount
Device(t, ord) == Val(Get(Active(t), start[t], ord))
DevicesOfProvider(t, p) ==
    {Device(t, o) : o \in {n \in 0..(TotalDevices(t) - 1) :
                              ProviderOf(Device(t, n).provider) = p}}

\* The visibility list of provider p when the call of t started: None when
\* unrestricted
VisibilityAtStart(t, p) ==
    IF IsMock(Active(t))
    THEN Some(IF p = CUDA THEN start[t].mock.cuda_visible ELSE start[t].mock.hip_visible)
    ELSE VisibleGet(GenuineResolve(start[t].env), p)

\* The allow-list variables parsed when the call of t started
ParsedAtStart(t) ==
    IsMock(Active(t)) \/ GenuineResolve(start[t].env).status = "ok"

\* Device dev is visible under the visibility state at the start of the call
VisibleAtStart(t, dev) ==
    LET v == VisibilityAtStart(t, ProviderOf(dev.provider))
    IN IsNone(v) \/ InList(dev.index, Val(v))

\* C2: get(idx) with provider ALL, ANY or None and visible_only=False, for
\* 0 <= idx < the number of devices of the active backend, returns one
\* record whose ordinal is idx, whose system index is the device's index and
\* whose local index is resolved from the device's own provider's list.
C2_GetFastPathReturnsDevice ==
    \A t \in Threads :
       (/\ Ended(t, "get") /\ FastPath(call[t]) /\ ParsedAtStart(t)
        /\ 0 <= call[t].idx /\ call[t].idx < TotalDevices(t))
       => /\ result[t].exc = ""
          /\ Len(result[t].list) = 1
          /\ result[t].list[1].ord = call[t].idx
          /\ result[t].list[1].system_index = Device(t, call[t].idx).index
          /\ IsNone(result[t].list[1].local_index)
                = ~VisibleAtStart(t, Device(t, call[t].idx))

\* The providers of an explicit required mask that have no considered
\* device (visible devices when visible_only, all devices otherwise)
Unsatisfied(t) ==
    {p \in {CUDA, HIP} :
        /\ call[t].required.kind = "mask"
        /\ BitAnd(p, call[t].required.mask) # 0
        /\ ~\E dev \in DevicesOfProvider(t, p) :
               call[t].visible_only => VisibleAtStart(t, dev)}

\* The call of t got as far as enumerating devices: the runtimes of all
\* required providers are present, visibility resolved, a device exists
Enumerated(t) ==
    /\ \A p \in {CUDA, HIP} :
          BitAnd(p, call[t].required.mask) # 0 => ProviderCheck(Active(t), start[t], p)
    /\ ParsedAtStart(t)
    /\ TotalDevices(t) > 0

\* A mock with one CUDA device and a HIP runtime without devices
OnlyCuda(t) ==
    /\ IsMock(Active(t))
    /\ start[t].mock.cuda_count = Some(1)
    /\ start[t].mock.hip_count = Some(0)
    /\ start[t].mock.cuda_visible = <<0>>

\* C3: query fails with the missing-providers failure exactly when, having
\* enumerated, some provider of the explicit required mask has no
\* considered device, and the failure names exactly those providers,
\* whatever the provider filter; with only CUDA devices
\* query(HIP, required=CUDA) returns [] and query(HIP, required=HIP) and
\* query(CUDA, required=HIP) fail.
C3_MissingProviders ==
    \A t \in Threads :
       Ended(t, "query") =>
          /\ (result[t].status = "MissingProviders")
                = (Enumerated(t) /\ Unsatisfied(t) # {})
          /\ result[t].status = "MissingProviders"
                => /\ {result[t].missing[i] : i \in 1..Len(result[t].missing)}
                         = Unsatisfied(t)
                   /\ result[t].exc = "RuntimeError"
          /\ (OnlyCuda(t) /\ call[t].provider = Some(HIP))
                => /\ call[t].required = ReqMask(CUDA)
                         => result[t].exc = "" /\ result[t].list = << >>
                   /\ call[t].required = ReqMask(HIP)
                         => result[t].status = "MissingProviders"
          /\ (OnlyCuda(t) /\ call[t].provider = Some(CUDA)
                /\ call[t].required = ReqMask(HIP))
                => result[t].status = "MissingProviders"

\* query(provider=CUDA, required=ALL, visible_only=True) on a mock with
\* devices of both providers whose HIP devices are all hidden has failed,
\* naming HIP.
C3_Witness ==
    /\ Ended("t1", "query")
    /\ IsMock(Active("t1"))
    /\ call["t1"].provider = Some(CUDA)
    /\ call["t1"].required = ReqMask(ALL)
    /\ call["t1"].visible_only
    /\ start["t1"].mock.hip_count = Some(MaxCount)
    /\ start["t1"].mock.cuda_visible # << >>
    /\ result["t1"].status = "MissingProviders"
    /\ result["t1"].missing = <<HIP>>

\* C4: when a query, count or get has ended, by a return or by any of its
\* failures, the allow-list variables and the mock's visibility lists are
\* what they were when the call started; a call that fails on parsing the
\* variables has left them unchanged.
C4_VisibilityRestored ==
    \A t \in Threads :
       (pc[t] = "done" /\ call[t].kind \in {"query", "count", "get"})
       => /\ frames[t] = << >>
          /\ env = start[t].env
          /\ mock = start[t].mock

\* A query on a mock that hides a device has failed after its scope had
\* cleared the lists.
C4_Witness ==
    /\ Ended("t1", "query")
    /\ IsMock(Active("t1"))
    /\ result["t1"].exc = "RuntimeError"
    /\ result["t1"].status # "RuntimeMissing"
    /\ MockCleared(mock, TRUE) # mock

\* C8: a mock built with a CUDA visibility list and no HIP visibility list
\* applies the CUDA list to its HIP devices, so that count(visible_only=True)
\* counts the CUDA devices in the list and the HIP devices in the list.
C8_MockHipInheritsCuda ==
    \A t \in Threads :
       (/\ Ended(t, "count") /\ FastPath(call[t]) /\ call[t].visible_only
        /\ IsMock(Active(t))
        /\ ~IsNone(mockArgs.cuda_visible) /\ IsNone(mockArgs.hip_visible))
       => result[t].num
             = Len(MockVisibleList(mockArgs.cuda_count, mockArgs.cuda_visible))
               + Len(MockVisibleList(mockArgs.hip_count, mockArgs.cuda_visible))

\* The devices of the active backend, and those a call of t considers: the
\* visible ones when visible_only, all of them otherwise
AllDevices(t) == {Device(t, o) : o \in 0..(TotalDevices(t) - 1)}
Considered(t) ==
    {dev \in AllDevices(t) : call[t].visible_only => VisibleAtStart(t, dev)}

\* The considered devices whose provider is in the provider filter of the
\* call (ANY and None meaning every provider)
InFilter(t, dev) ==
    \/ call[t].provider \in {None, Some(ANY), Some(ALL)}
    \/ call[t].provider = Some(ProviderOf(dev.provider))
Matching(t) == {dev \in Considered(t) : InFilter(t, dev)}

\* C11: query with required=True, on a backend that has devices, fails with
\* the no-suitable-devices RuntimeError exactly when no device passes both
\* the provider filter and (if visible_only) the visibility filter, and
\* returns otherwise; query(provider=HIP, required=True) on a backend with
\* only CUDA devices fails so.
C11_NoSuitableDevices ==
    \A t \in Threads :
       (Ended(t, "query") /\ call[t].required = ReqTrue /\ ParsedAtStart(t))
       => /\ (result[t].status = "NoSuitableGPUs")
                = (TotalDevices(t) > 0 /\ Matching(t) = {})
          /\ result[t].status = "NoSuitableGPUs" => result[t].exc = "RuntimeError"
          /\ (TotalDevices(t) > 0 /\ Matching(t) # {}) => result[t].exc = ""
          /\ (OnlyCuda(t) /\ call[t].provider = Some(HIP))
                => result[t].status = "NoSuitableGPUs"

\* query(provider=HIP, required=True) on a mock with one CUDA device and no
\* HIP device has failed with the no-suitable-devices error.
C11_Witness ==
    /\ Ended("t1", "query")
    /\ OnlyCuda("t1")
    /\ call["t1"].provider = Some(HIP)
    /\ call["t1"].required = ReqTrue
    /\ result["t1"].status = "NoSuitableGPUs"
    /\ result["t1"].exc = "RuntimeError"

\* C12: query with required=ANY (the empty mask passed explicitly) fails
\* whenever no device is among those it considers; with visible_only only
\* visible devices are considered, so the query fails when every device is
\* hidden by the visibility lists.
C12_AnyRequiresConsideredDevice ==
    \A t \in Threads :
       (/\ Ended(t, "query") /\ call[t].required = ReqMask(ANY)
        /\ ParsedAtStart(t) /\ Considered(t) = {})
       => result[t].exc = "RuntimeError"

\* The runtime of every provider in the required mask is installed
RuntimesInstalled(t) ==
    \A p \in {CUDA, HIP} :
       BitAnd(p, call[t].required.mask) # 0 => ProviderCheck(Active(t), start[t], p)

\* C13: query fails with the no-devices RuntimeError exactly when the
\* backend has no device at all (hidden ones counted) and required was given
\* as True, as ANY or as a mask whose runtimes are installed; with no device
\* and required None it returns an empty list.
C13_ZeroDevices ==
    \A t \in Threads :
       (Ended(t, "query") /\ ParsedAtStart(t))
       => /\ (result[t].status = "NoGPUsDetected")
                = (/\ TotalDevices(t) = 0
                   /\ call[t].required # ReqNone
                   /\ RuntimesInstalled(t))
          /\ result[t].status = "NoGPUsDetected" => result[t].exc = "RuntimeError"
          /\ (TotalDevices(t) = 0 /\ call[t].required = ReqNone)
                => result[t].exc = "" /\ result[t].list = << >>

\* query(required=ALL) on a mock with both runtimes and no device has failed
\* with the no-devices error.
C13_Witness ==
    /\ Ended("t1", "query")
    /\ IsMock(Active("t1"))
    /\ mockArgs.cuda_count = Some(0)
    /\ mockArgs.hip_count = Some(0)
    /\ call["t1"].required = ReqMask(ALL)
    /\ result["t1"].status = "NoGPUsDetected"

\* C14: a list returned by query is in strictly ascending ordinal order,
\* holds only devices whose provider is in the provider filter, holds every
\* considered device whose provider is in the filter, and with visible_only
\* holds no record whose local index is None.
C14_QueryListOrderedAndFiltered ==
    \A t \in Threads :
       (Ended(t, "query") /\ result[t].exc = "")
       => LET lst == result[t].list
          IN /\ \A i, j \in 1..Len(lst) : i < j => lst[i].ord < lst[j].ord
             /\ \A i \in 1..Len(lst) :
                   /\ InFilter(t, lst[i])
                   /\ call[t].visible_only => ~IsNone(lst[i].local_index)
             /\ {lst[i].ord : i \in 1..Len(lst)} = {dev.ord : dev \in Matching(t)}

\* query(visible_only=True) on a mock with two CUDA devices, the first one
\* hidden, and two HIP devices has returned the devices of ordinals 1, 2, 3.
C14_Witness ==
    /\ Ended("t1", "query")
    /\ IsMock(Active("t1"))
    /\ start["t1"].mock.cuda_visible = <<1>>
    /\ start["t1"].mock.hip_visible = <<0, 1>>
    /\ call["t1"].visible_only
    /\ result["t1"].exc = ""
    /\ Len(result["t1"].list) = 3
    /\ result["t1"].list[1].ord = 1
    /\ result["t1"].list[3].provider = "HIP"

\* The local index of a record, worked out from the visibility list its own
\* provider had when the call started: the system index when the list is
\* unrestricted, the number of smaller members of the sorted list when the
\* system index is a member, None otherwise
ExpectedLocal(t, rec) ==
    LET v == VisibilityAtStart(t, ProviderOf(rec.provider))
    IN IF IsNone(v) THEN Some(rec.system_index)
       ELSE IF InList(rec.system_index, Val(v))
       THEN Some(Cardinality({k \in 1..Len(Val(v)) : Val(v)[k] < rec.system_index}))
       ELSE None

\* C15: in every record returned by query or get, the system index is that
\* of the device of the record's ordinal, the local index is None exactly
\* when the system index is absent from the visibility list of the device's
\* own provider, it equals the system index when that list is unrestricted
\* and the position of the system index in the sorted list otherwise.
C15_LocalIndex ==
    \A t \in Threads :
       ((Ended(t, "query") \/ Ended(t, "get")) /\ result[t].exc = "")
       => \A i \in 1..Len(result[t].list) :
             LET rec == result[t].list[i]
                 v == VisibilityAtStart(t, ProviderOf(rec.provider))
             IN /\ rec.system_index = Device(t, rec.ord).index
                /\ rec.provider = Device(t, rec.ord).provider
                /\ IsNone(rec.local_index)
                      = (~IsNone(v) /\ ~InList(rec.system_index, Val(v)))
                /\ rec.local_index = ExpectedLocal(t, rec)

\* get(0, visible_only=True) on a mock whose visible CUDA list is [1] has
\* returned the device of system index 1 with local index 0.
C15_Witness ==
    /\ Ended("t1", "get")
    /\ IsMock(Active("t1"))
    /\ start["t1"].mock.cuda_visible = <<1>>
    /\ call["t1"].idx = 0
    /\ call["t1"].visible_only
    /\ result["t1"].exc = ""
    /\ result["t1"].list[1].system_index = 1
    /\ result["t1"].list[1].local_index = Some(0)

\* C16: on the filtered path of get (provider not ALL, or visible_only), an
\* idx outside [0, number of matching devices) - equal to that number, 0 on
\* an empty matching set, or negative - fails with one and the same kind of
\* out-of-range error, IndexError.
C16_GetOutOfRangeIsIndexError ==
    \A t \in Threads :
       (/\ Ended(t, "get") /\ ~FastPath(call[t]) /\ ParsedAtStart(t)
        /\ (call[t].idx < 0 \/ call[t].idx >= Cardinality(Matching(t))))
       => result[t].exc = "IndexError"

\* C17: on a mock, count with provider ALL, ANY or None returns the number
\* of constructed devices (cuda_count + hip_count, None counted as 0) when
\* visible_only is false, whatever the visibility lists, and the number of
\* currently visible devices when visible_only is true.
C17_MockCountFastPath ==
    \A t \in Threads :
       (/\ Ended(t, "count") /\ IsMock(Active(t))
        /\ call[t].provider \in {None, Some(ANY), Some(ALL)})
       => /\ result[t].exc = ""
          /\ ~call[t].visible_only
                => result[t].num = OrZero(mockArgs.cuda_count)
                                   + OrZero(mockArgs.hip_count)
          /\ call[t].visible_only
                => result[t].num
                      = Cardinality({dev \in AllDevices(t) : VisibleAtStart(t, dev)})

\* count() on a mock with two CUDA devices, one of them hidden, has
\* returned 2.
C17_Witness ==
    /\ Ended("t1", "count")
    /\ IsMock(Active("t1"))
    /\ mockArgs.cuda_count = Some(2)
    /\ mockArgs.hip_count = None
    /\ mock.cuda_visible = <<1>>
    /\ call["t1"].provider = Some(ALL)
    /\ ~call["t1"].visible_only
    /\ result["t1"].num = 2

\* What query(provider, required=None, visible_only) returns on the mock in
\* the state in which the call of t started: the body of query run inside
\* the mock's cleared scope
QueryAtStart(t, provider, visible_only) ==
    QueryBody("mock",
              [env |-> start[t].env, mock |-> MockCleared(start[t].mock, TRUE)],
              MockVisibleMap(start[t].mock), provider, ReqNone, visible_only)

\* C18: on a mock, count(provider, visible_only) returns the length of the
\* list query(provider, required=None, visible_only) returns, for each of
\* the masks ANY, CUDA, HIP, ALL (and None) and both values of visible_only;
\* it is the number of matching devices, and the count for ALL or ANY is
\* the sum of the lengths for CUDA and for HIP.
C18_CountIsLengthOfQuery ==
    \A t \in Threads :
       (Ended(t, "count") /\ IsMock(Active(t)))
       => LET v == call[t].visible_only
          IN /\ result[t].exc = ""
             /\ QueryAtStart(t, call[t].provider, v).exc = ""
             /\ result[t].num = Len(QueryAtStart(t, call[t].provider, v).list)
             /\ result[t].num = Cardinality(Matching(t))
             /\ call[t].provider \in {None, Some(ANY), Some(ALL)}
                   => result[t].num = Len(QueryAtStart(t, Some(CUDA), v).list)
                                      + Len(QueryAtStart(t, Some(HIP), v).list)

\* count(ANY, visible_only=True) on a mock with two CUDA devices, the first
\* one hidden, and two HIP devices has returned 3.
C18_Witness ==
    /\ Ended("t1", "count")
    /\ IsMock(Active("t1"))
    /\ mock.cuda_visible = <<1>>
    /\ mock.hip_visible = <<0, 1>>
    /\ call["t1"].provider = Some(ANY)
    /\ call["t1"].visible_only
    /\ result["t1"].num = 3

\* The count the mock was constructed with for provider p
CountArg(p) == IF p = CUDA THEN mockArgs.cuda_count ELSE mockArgs.hip_count

\* C19: under a mock, hascuda() and hasamd() return true exactly when the
\* count given for the provider at construction is not None, a count of 0
\* included; and a query fails on a missing runtime exactly when the count
\* of some provider of its required mask is None.
C19_MockProviderCheck ==
    \A t \in Threads :
       IsMock(Active(t))
       => /\ Ended(t, "hascuda")
                => result[t].exc = "" /\ result[t].flag = (CountArg(CUDA) # None)
          /\ Ended(t, "hasamd")
                => result[t].exc = "" /\ result[t].flag = (CountArg(HIP) # None)
          /\ Ended(t, "query")
                => (result[t].status = "RuntimeMissing")
                      = (\E p \in {CUDA, HIP} :
                            /\ BitAnd(p, call[t].required.mask) # 0
                            /\ CountArg(p) = None)

\* hasamd() under a mock constructed with hip_count=0 has returned True.
C19_Witness ==
    /\ Ended("t1", "hasamd")
    /\ IsMock(Active("t1"))
    /\ mockArgs.hip_count = Some(0)
    /\ result["t1"].flag

\* C20: count, get or query called with a backend passed as impl=B ends as
\* the same call with no backend argument ends inside a scoped override of
\* B: with B the mock, count returns the mock's number of devices and query
\* returns what query returns on the mock.
C20_ExplicitBackendEqualsScoped ==
    \A t \in Threads :
       (/\ pc[t] = "done" /\ call[t].kind \in {"query", "count", "get"}
        /\ call[t].impl = Some("mock"))
       => /\ result[t].exc # "TypeError"
          /\ call[t].kind = "count"
                => /\ result[t].exc = ""
                   /\ result[t].num = MockCount(MockCleared(start[t].mock, TRUE))
          /\ call[t].kind = "query"
                => result[t] = QueryAtStart(t, call[t].provider, call[t].visible_only)

\* The providers of the required mask of the call of t, in the order CUDA,
\* HIP, whose runtime is not installed
NotInstalled(t) ==
    SelectSeq(<<CUDA, HIP>>,
              LAMBDA p : /\ BitAnd(p, call[t].required.mask) # 0
                         /\ ~ProviderCheck(Active(t), start[t], p))

\* C21: a query fails with the runtime-missing RuntimeError exactly when
\* provider_check is false for a provider of its required mask, naming the
\* first such provider; the failure is the very first step of the call, so
\* no visibility scope was opened before it and the backend's visibility
\* state (allow-list variables, mock lists) was neither cleared nor saved.
C21_RuntimeCheckFirst ==
    /\ [](\A t \in Threads :
            Ended(t, "query") =>
               /\ (result[t].status = "RuntimeMissing") = (NotInstalled(t) # << >>)
               /\ result[t].status = "RuntimeMissing"
                     => /\ result[t].exc = "RuntimeError"
                        /\ result[t].missing = <<NotInstalled(t)[1]>>
                        /\ frames[t] = << >>
                        /\ env = start[t].env
                        /\ mock = start[t].mock)
    /\ [][\A t \in Threads :
            (result'[t].status = "RuntimeMissing" /\ result[t].status # "RuntimeMissing")
            => /\ pc[t] = "idle"
               /\ frames' = frames
               /\ env' = env
               /\ mock' = mock]_vars

\* query(required=ALL) on a mock without a HIP runtime that hides a CUDA
\* device has failed naming HIP, the mock's lists not cleared.
C21_Witness ==
    /\ Ended("t1", "query")
    /\ IsMock(Active("t1"))
    /\ mockArgs.hip_count = None
    /\ call["t1"].required = ReqMask(ALL)
    /\ result["t1"].status = "RuntimeMissing"
    /\ result["t1"].missing = <<HIP>>
    /\ MockCleared(mock, TRUE) # mock

\* C22 as claimed: with required=True, success of query is measured against
\* the devices present, not against the filtered result: the call succeeds
\* whenever the backend has at least one device, even if the provider filter
\* leaves the returned list empty.
C22_SuccessAgainstTotal ==
    \A t \in Threads :
       (/\ Ended(t, "query") /\ call[t].required = ReqTrue
        /\ ParsedAtStart(t) /\ TotalDevices(t) > 0)
       => result[t].exc = ""

\* C22 as amended: with required=True, success of query is measured against
\* the filtered result: the call returns exactly when at least one device
\* passes the provider filter and (if visible_only) the visibility filter,
\* and then returns a non-empty list; devices that are present but filtered
\* out do not make it succeed, and no runtime needs to be installed.
C22_SuccessAgainstFiltered ==
    \A t \in Threads :
       (Ended(t, "query") /\ call[t].required = ReqTrue /\ ParsedAtStart(t))
       => /\ (result[t].exc = "") = (Matching(t) # {})
          /\ result[t].exc = "" => result[t].list # << >>
          /\ result[t].exc # "" => result[t].exc = "RuntimeError"
          /\ result[t].status # "RuntimeMissing"
          /\ result[t].status # "MissingProviders"

\* query(provider=CUDA, required=True, visible_only=True) on a mock whose
\* only CUDA device is hidden and whose HIP devices are visible has failed.
C22_Witness ==
    /\ Ended("t1", "query")
    /\ IsMock(Active("t1"))
    /\ mockArgs.cuda_count = Some(1)
    /\ start["t1"].mock.cuda_visible = << >>
    /\ start["t1"].mock.hip_visible = <<0, 1>>
    /\ call["t1"].provider = Some(CUDA)
    /\ call["t1"].required = ReqTrue
    /\ call["t1"].visible_only
    /\ result["t1"].exc = "RuntimeError"

\* C23: a backend's get(ordinal) fails with the out-of-range IndexError
\* whenever ordinal is not in [0, count()), count() being the number the
\* backend reports at the time of the call; so on a mock with a restricted
\* visibility list and no clearing scope open, get(ordinal) fails for every
\* ordinal >= count().
C23_BackendGetWithinCount ==
    \A t \in Threads :
       (/\ Ended(t, "backend_get") /\ IsMock(Active(t))
        /\ ~(0 <= call[t].idx /\ call[t].idx < MockCount(start[t].mock)))
       => result[t].exc = "IndexError"

\* A second mock, as impl3 of tests/test_api.py: no CUDA runtime and two
\* HIP devices; and the records query(visible_only=False) returns on it
Impl3 == MockNew(None, Some(2), None, None)
RecordsOfImpl3 ==
    QueryBody("mock", [env |-> [cuda |-> None, hip |-> None], mock |-> Impl3],
              MockVisibleMap(Impl3), None, ReqNone, FALSE).list

\* C24: two records that come from the same backend compare equal exactly
\* when their local indices are equal; two records from different backends
\* compare equal exactly when their fields other than ordinal, local index
\* and system index are equal.
C24_EqualityByLocalIndex ==
    \A t \in Threads :
       (Ended(t, "query") /\ IsMock(Active(t)) /\ result[t].exc = "")
       => LET lst == result[t].list
          IN /\ \A i, j \in 1..Len(lst) :
                   PropertiesEq(lst[i], lst[j])
                      = (lst[i].local_index = lst[j].local_index)
             /\ \A i \in 1..Len(lst), j \in 1..Len(RecordsOfImpl3) :
                   PropertiesEq(lst[i], RecordsOfImpl3[j])
                      = (AsDictStripped(lst[i]) = AsDictStripped(RecordsOfImpl3[j]))

\* The provider and the system index of ordinal o in a mock constructed with
\* c CUDA and h HIP devices: CUDA devices first, then HIP devices
ContiguousProvider(o) == IF o < OrZero(CountArg(CUDA)) THEN "CUDA" ELSE "HIP"
ContiguousIndex(o) ==
    IF o < OrZero(CountArg(CUDA)) THEN o ELSE o - OrZero(CountArg(CUDA))

\* C25: a mock with counts c (CUDA) and h (HIP), None counted as 0, reports
\* c + h devices under cleared visibility; its device of ordinal o < c is
\* CUDA with system index o and its device of ordinal o in [c, c+h) is HIP
\* with system index o - c, in the backend's get and in every record query
\* returns; when the mock was given no visibility list the local indices
\* equal these system indices.
C25_MockContiguousOrdinals ==
    \A t \in Threads :
       IsMock(Active(t))
       => LET total == OrZero(CountArg(CUDA)) + OrZero(CountArg(HIP))
              lst == result[t].list
          IN /\ (Ended(t, "count") /\ FastPath(call[t]) /\ ~call[t].visible_only)
                   => result[t].num = total
             /\ Ended(t, "backend_get")
                   => /\ (result[t].exc = "") = (0 <= call[t].idx /\ call[t].idx < total)
                      /\ result[t].exc = ""
                            => /\ lst[1].ord = call[t].idx
                               /\ lst[1].provider = ContiguousProvider(call[t].idx)
                               /\ lst[1].index = ContiguousIndex(call[t].idx)
             /\ (Ended(t, "query") /\ result[t].exc = "")
                   => \A i \in 1..Len(lst) :
                         /\ lst[i].ord < total
                         /\ lst[i].provider = ContiguousProvider(lst[i].ord)
                         /\ lst[i].system_index = ContiguousIndex(lst[i].ord)
                         /\ (IsNone(mockArgs.cuda_visible) /\ IsNone(mockArgs.hip_visible))
                               => lst[i].local_index = Some(ContiguousIndex(lst[i].ord))
             /\ (/\ Ended(t, "query") /\ result[t].exc = ""
                 /\ call[t].provider = None /\ ~call[t].visible_only)
                   => Len(lst) = total

\* query() on a mock of two CUDA and two HIP devices with no visibility list
\* has returned ordinals 0, 1 as CUDA 0, 1 and ordinals 2, 3 as HIP 0, 1.
C25_Witness ==
    /\ Ended("t1", "query")
    /\ IsMock(Active("t1"))
    /\ mockArgs = [cuda_count |-> Some(2), hip_count |-> Some(2),
                   cuda_visible |-> None, hip_visible |-> None]
    /\ result["t1"].exc = ""
    /\ Len(result["t1"].list) = 4
    /\ result["t1"].list[2].provider = "CUDA"
    /\ result["t1"].list[2].local_index = Some(1)
    /\ result["t1"].list[3].provider = "HIP"
    /\ result["t1"].list[3].local_index = Some(0)
    /\ result["t1"].list[4].local_index = Some(1)

(***************************************************************************)
(* Properties of the Genuine backend's visibility resolution, checked      *)
(* under SpecEnv.                                                          *)
(***************************************************************************)
\* The tokens of an allow-list variable (none when it is absent)
TokensOf(value) == IF IsNone(value) THEN << >> ELSE Split(Val(value))

\* The list a present variable resolves to when all its tokens are integers
ListOf(value) ==
    SortedList({IntOf(TokensOf(value)[i]) : i \in 1..Len(TokensOf(value))})

\* C9: in the Visibility map save_visible yields, HIP equals CUDA's parsed
\* list when only CUDA_VISIBLE_DEVICES is present, CUDA is unrestricted when
\* only HIP_VISIBLE_DEVICES is present, each entry is its own parsed list
\* when both are present, and both are unrestricted when both are absent.
C9_InheritanceIsOneWay ==
    \A t \in Threads :
       (Ended(t, "save_visible") /\ result[t].exc = "")
       => LET cuda == start[t].env.cuda
              hip == start[t].env.hip
              v == result[t].visible
          IN /\ (~IsNone(cuda) /\ IsNone(hip))
                   => v.cuda = Some(ListOf(cuda)) /\ v.hip = Some(ListOf(cuda))
             /\ (IsNone(cuda) /\ ~IsNone(hip))
                   => v.cuda = None /\ v.hip = Some(ListOf(hip))
             /\ (~IsNone(cuda) /\ ~IsNone(hip))
                   => v.cuda = Some(ListOf(cuda)) /\ v.hip = Some(ListOf(hip))
             /\ (IsNone(cuda) /\ IsNone(hip))
                   => v.cuda = None /\ v.hip = None

\* With CUDA_VISIBLE_DEVICES=1,0 and no HIP_VISIBLE_DEVICES, HIP resolved
\* to [0, 1].
C9_Witness ==
    /\ Ended("t1", "save_visible")
    /\ start["t1"].env = [cuda |-> Some(<<"1", ",", "0">>), hip |-> None]
    /\ result["t1"].exc = ""
    /\ result["t1"].visible.hip = Some(<<0, 1>>)

\* The tokens of a variable that are not non-negative integers
NotNonNegative(value) ==
    {i \in 1..Len(TokensOf(value)) :
        ~(IsInt(TokensOf(value)[i]) /\ IntOf(TokensOf(value)[i]) >= 0)}

\* The tokens of a variable that int() rejects
NotInteger(value) ==
    {i \in 1..Len(TokensOf(value)) : ~IsInt(TokensOf(value)[i])}

\* C10: a token of a present allow-list variable that is not a
\* non-negative integer (non-numeric, or a negative integer) makes the
\* resolution fail with a validation error.
C10_NonNegativeTokensOnly ==
    \A t \in Threads :
       (/\ Ended(t, "save_visible")
        /\ NotNonNegative(start[t].env.cuda) \cup NotNonNegative(start[t].env.hip) # {})
       => result[t].exc = "ValueError"

\* The integers of the tokens of a present variable
ValuesOf(value) == {IntOf(TokensOf(value)[i]) : i \in 1..Len(TokensOf(value))}

\* A list is strictly ascending and its members are the set S
AscendingListOf(lst, S) ==
    /\ \A i, j \in 1..Len(lst) : i < j => lst[i] < lst[j]
    /\ {lst[i] : i \in 1..Len(lst)} = S

\* C26: when save_visible resolves the variables, the list of each present
\* variable is strictly ascending (sorted, no duplicates) and its members
\* are exactly the integers of the variable's tokens, so it does not depend
\* on the order or the multiplicity of the tokens: "2,0,1" and "1,1,0,2"
\* both give [0, 1, 2]; a variable with a token that is no integer, such as
\* "x", gives a ValueError instead.
C26_ParsedListSortedUnique ==
    \A t \in Threads :
       Ended(t, "save_visible") =>
          LET cuda == start[t].env.cuda
              hip == start[t].env.hip
              bad == NotInteger(cuda) \cup NotInteger(hip) # {}
              v == result[t].visible
          IN /\ bad => result[t].exc = "ValueError"
             /\ ~bad => /\ result[t].exc = ""
                        /\ ~IsNone(cuda)
                              => /\ ~IsNone(v.cuda)
                                 /\ AscendingListOf(Val(v.cuda), ValuesOf(cuda))
                        /\ ~IsNone(hip)
                              => /\ ~IsNone(v.hip)
                                 /\ AscendingListOf(Val(v.hip), ValuesOf(hip))
                        /\ (~IsNone(cuda) /\ ~IsNone(hip)
                              /\ ValuesOf(cuda) = ValuesOf(hip))
                              => v.cuda = v.hip
                        /\ cuda \in EnvLists => v.cuda = Some(<<0, 1, 2>>)
                        /\ hip \in EnvLists => v.hip = Some(<<0, 1, 2>>)

\* CUDA_VISIBLE_DEVICES=1,1,0,2 and HIP_VISIBLE_DEVICES=2,0,1 have both
\* resolved to [0, 1, 2].
C26_Witness ==
    /\ Ended("t1", "save_visible")
    /\ start["t1"].env.cuda = Some(<<"1", ",", "1", ",", "0", ",", "2">>)
    /\ start["t1"].env.hip = Some(<<"2", ",", "0", ",", "1">>)
    /\ result["t1"].exc = ""
    /\ result["t1"].visible = [cuda |-> Some(<<0, 1, 2>>), hip |-> Some(<<0, 1, 2>>)]


(***************************************************************************)
(* Properties of save_visible run by two threads, checked under SpecRace.  *)
(***************************************************************************)
\* Both threads have left save_visible (a thread that made no call counts).
BothLeft == \A t \in Threads : pc[t] \in {"done", "idle"}
Callers == {t \in Threads : call[t] # NoCall}
OnMock == \A t \in Threads : IsMock(GetImpl(cell, t))
\* The lists of the instance before the operations started
ListsBefore == start["t1"].mock
AllIndices == MockCleared(ListsBefore, TRUE)

\* C27: on one Mock instance, an operation that runs alone leaves the
\* visibility lists as they were, while two operations that overlap can
\* both finish with a list different from its value before they started;
\* a list that differs is then at the cleared, all-indices value (the
\* restore of the original was lost).
C27_LostRestoreLeavesAllIndices ==
    (OnMock /\ BothLeft) =>
        /\ Cardinality(Callers) = 1 => mock = ListsBefore
        /\ mock.cuda_visible \in {ListsBefore.cuda_visible, AllIndices.cuda_visible}
        /\ mock.hip_visible \in {ListsBefore.hip_visible, AllIndices.hip_visible}

\* Two operations, one of them a query, have both finished on the same
\* instance and its CUDA list is left at the all-indices value.
C27_Witness ==
    /\ OnMock /\ BothLeft /\ Cardinality(Callers) = 2
    /\ \E t \in Threads : call[t].kind = "query" /\ result[t].exc = ""
    /\ mock.cuda_visible # ListsBefore.cuda_visible
    /\ mock.cuda_visible = AllIndices.cuda_visible

OnGenuine == \A t \in Threads : ~IsMock(GetImpl(cell, t))
\* The allow-list variables before either scope was entered
EnvBefore == start["t1"].env

\* C28 as stated: once both threads have left their save_visible(clear=True)
\* scopes on the Genuine backend, both variables have the presence and
\* value they had before either scope was entered.
C28_BothVariablesRestored ==
    (OnGenuine /\ BothLeft) => env = EnvBefore

\* C28, amended: a scope that runs alone restores both variables; after two
\* overlapping scopes each variable has its original value or is absent
\* (its restore was lost), never another value.
C28_RestoredOrLost ==
    (OnGenuine /\ BothLeft) =>
        /\ Cardinality(Callers) = 1 => env = EnvBefore
        /\ env.cuda \in {EnvBefore.cuda, None}
        /\ env.hip \in {EnvBefore.hip, None}

\* Both scopes are left, the entry of one failed with KeyError because the
\* other had deleted the variable, and CUDA_VISIBLE_DEVICES, set before, is
\* absent.
C28_Witness ==
    /\ OnGenuine /\ BothLeft /\ Cardinality(Callers) = 2
    /\ \E t \in Threads : result[t].exc = "KeyError"
    /\ ~IsNone(EnvBefore.cuda)
    /\ IsNone(env.cuda)

(***************************************************************************)
(* Local indices of a returned list, checked under Spec.                   *)
(***************************************************************************)
\* The records of provider p in the list returned to t, in list order
RecordsOf(t, p) == SelectSeq(result[t].list, LAMBDA rec : rec.provider = p)

\* C29: in a list returned by query(provider=ALL, visible_only=True), the
\* records of each provider, taken in ascending ordinal order, carry the
\* local indices 0, 1, ..., k-1.
C29_LocalIndicesFromZero ==
    \A t \in Threads :
       (/\ Ended(t, "query") /\ result[t].exc = ""
        /\ call[t].visible_only /\ call[t].provider = Some(ALL))
       => \A p \in {"CUDA", "HIP"} :
             \A k \in 1..Len(RecordsOf(t, p)) :
                RecordsOf(t, p)[k].local_index = Some(k - 1)
====
